---- MODULE Spec2Model ----
(***************************************************************************)
(* A model of the jaba tree-walking evaluator (pkg/evaluator) and of the   *)
(* environment it runs against (pkg/object).  Eval is a recursive Go       *)
(* function; the model unfolds the recursion into an explicit call stack:  *)
(* one action for every case of Eval's switch (the call) and one for every *)
(* point at which a caller resumes with the value of a sub-evaluation.     *)
(* Objects that Go compares by pointer carry the address they were         *)
(* allocated at; environments live in a heap indexed by environment id.    *)
(*                                                                         *)
(* The lexer (pkg/lexer) is modelled on source text given as a sequence of *)
(* bytes, each byte a one-character string; l is the Lexer and returned    *)
(* the tokens NextToken has returned so far.                               *)
(*                                                                         *)
(* The parser (pkg/parser) is a set of recursive operators on the Parser   *)
(* record; parser is the Parser between two statements of ParseProgram and *)
(* parsed what has been parsed so far.  The fields dropped, consumed and   *)
(* stalled of the Parser are histories the code does not keep.  repl is    *)
(* the loop of Run of the REPL, which lexes, parses and evaluates line     *)
(* after line in one environment.                                          *)
(***************************************************************************)
EXTENDS Integers, Sequences, FiniteSets, TLC

VARIABLES testInput, program, ctl, stack, envs, nextAddr, out, l, returned,
          parser, parsed, inspected, repl

vars == <<testInput, program, ctl, stack, envs, nextAddr, out, l, returned,
          parser, parsed, inspected, repl>>

(***************************************************************************)
(* Bounds of the model.                                                    *)
(***************************************************************************)
\* integer literals of the generated programs range over 0..MaxLit
MaxLit == 2
\* deepest recursion of the self-calling function of the generated programs
MaxRec == 3
\* largest number of arguments in the generated calls
MaxArgs == 3
\* largest number of statements in the programs generated from the pool
MaxStatements == 3

\* the REPL reads 0..MaxLines lines
MaxLines == 3
\* arrays of 0..MaxLen elements
MaxLen == 3
\* source texts of 0..MaxInput bytes for the lexer
MaxInput == 3
\* the operands of the arithmetic texts range over -MaxOperand..MaxOperand
MaxOperand == 7

(***************************************************************************)
(* Tokens (pkg/token) and the lexer (pkg/lexer).  A byte is a string of    *)
(* one character, NUL is the byte 0; a text is a sequence of bytes.        *)
(***************************************************************************)
NUL == "NUL"

\* token.Token{Type, Literal}
Token(type, literal) == [type |-> type, literal |-> literal]

\* string(bytes) as a TLA+ string
RECURSIVE Concat(_)
Concat(bytes) == IF Len(bytes) = 0 THEN "" ELSE Head(bytes) \o Concat(Tail(bytes))

keywords ==
    [ident \in {"fn", "let", "true", "false", "if", "else", "return"} |->
        CASE ident = "fn" -> "FUNCTION"
          [] ident = "let" -> "LET"
          [] ident = "true" -> "TRUE"
          [] ident = "false" -> "FALSE"
          [] ident = "if" -> "IF"
          [] ident = "else" -> "ELSE"
          [] ident = "return" -> "RETURN"]

LookupIdentifier(ident) ==
    IF Concat(ident) \in DOMAIN keywords THEN keywords[Concat(ident)] ELSE "IDENTIFIER"

isLetter(ch) ==
    ch \in {"a", "b", "c", "d", "e", "f", "g", "h", "i", "j", "k", "l", "m", "n",
            "o", "p", "q", "r", "s", "t", "u", "v", "w", "x", "y", "z",
            "A", "B", "C", "D", "E", "F", "G", "H", "I", "J", "K", "L", "M", "N",
            "O", "P", "Q", "R", "S", "T", "U", "V", "W", "X", "Y", "Z", "_"}

isDigit(ch) == ch \in {"0", "1", "2", "3", "4", "5", "6", "7", "8", "9"}

\* the Lexer struct; position and readPosition count bytes from 0
Lexer(input, position, readPosition, ch) ==
    [input |-> input, position |-> position, readPosition |-> readPosition, ch |-> ch]

readChar(lx) ==
    Lexer(lx.input, lx.readPosition, lx.readPosition + 1,
          IF lx.readPosition >= Len(lx.input) THEN NUL
          ELSE lx.input[lx.readPosition + 1])

peekChar(lx) ==
    IF lx.readPosition >= Len(lx.input) THEN NUL ELSE lx.input[lx.readPosition + 1]

NewLexer(input) == readChar(Lexer(input, 0, 0, NUL))

RECURSIVE skipWhitespace(_)
skipWhitespace(lx) ==
    IF lx.ch \in {" ", "\t", "\n", "\r"} THEN skipWhitespace(readChar(lx)) ELSE lx

\* the lexer after the loop for isLetter(l.ch) { l.readChar() }
RECURSIVE readLetters(_)
readLetters(lx) == IF isLetter(lx.ch) THEN readLetters(readChar(lx)) ELSE lx

RECURSIVE readDigits(_)
readDigits(lx) == IF isDigit(lx.ch) THEN readDigits(readChar(lx)) ELSE lx

\* the lexer after the loop of readString: readChar until '"' or 0
RECURSIVE readQuoted(_)
readQuoted(lx) ==
    LET next == readChar(lx)
    IN  IF next.ch = "\"" \/ next.ch = NUL THEN next ELSE readQuoted(next)

\* l.input[from:to]
Slice(input, from, to) == SubSeq(input, from + 1, to)

\* the result of readIdentifier, readNumber and readString: the literal and
\* the lexer after it
readIdentifier(lx) ==
    LET after == readLetters(lx)
    IN  [literal |-> Slice(lx.input, lx.position, after.position), l |-> after]

readNumber(lx) ==
    LET after == readDigits(lx)
    IN  [literal |-> Slice(lx.input, lx.position, after.position), l |-> after]

readString(lx) ==
    LET after == readQuoted(lx)
    IN  [literal |-> Slice(lx.input, lx.position + 1, after.position), l |-> after]

newToken(tokenType, ch) == Token(tokenType, <<ch>>)

\* the token types of the one-byte tokens
Single ==
    [ch \in {"+", "-", "*", "/", "<", ">", ",", ";", "(", ")", "{", "}"} |-> ch]

\* NextToken: the token returned and the lexer after the call
NextToken(lx) ==
    LET s == skipWhitespace(lx)
    IN  IF s.ch = "="
        THEN IF peekChar(s) = "="
             THEN [tok |-> Token("==", <<s.ch, readChar(s).ch>>),
                   l |-> readChar(readChar(s))]
             ELSE [tok |-> newToken("=", s.ch), l |-> readChar(s)]
        ELSE IF s.ch = "!"
        THEN IF peekChar(s) = "="
             THEN [tok |-> Token("!=", <<s.ch, readChar(s).ch>>),
                   l |-> readChar(readChar(s))]
             ELSE [tok |-> newToken("!", s.ch), l |-> readChar(s)]
        ELSE IF s.ch \in DOMAIN Single
        THEN [tok |-> newToken(Single[s.ch], s.ch), l |-> readChar(s)]
        ELSE IF s.ch = NUL
        THEN [tok |-> newToken("EOF", s.ch), l |-> readChar(s)]
        ELSE IF s.ch = "\""
        THEN [tok |-> Token("STRING", readString(s).literal),
              l |-> readChar(readString(s).l)]
        ELSE IF isLetter(s.ch)
        THEN [tok |-> Token(LookupIdentifier(readIdentifier(s).literal),
                            readIdentifier(s).literal),
              l |-> readIdentifier(s).l]
        ELSE IF isDigit(s.ch)
        THEN [tok |-> Token("INTEGER", readNumber(s).literal), l |-> readNumber(s).l]
        ELSE [tok |-> newToken("ILLEGAL", s.ch), l |-> readChar(s)]

(***************************************************************************)
(* AST nodes (pkg/ast).  A node is a record tagged by kind.                *)
(***************************************************************************)
NoNode == [kind |-> "nil"]

Program(statements) == [kind |-> "Program", statements |-> statements]

Identifier(value) == [kind |-> "Identifier", value |-> value]

\* Name is an *ast.Identifier
LetStatement(name, value) ==
    [kind |-> "LetStatement", name |-> Identifier(name), value |-> value]

ReturnStatement(value) == [kind |-> "ReturnStatement", value |-> value]

ExpressionStatement(value) == [kind |-> "ExpressionStatement", value |-> value]

BlockStatement(statements) == [kind |-> "BlockStatement", statements |-> statements]


IntegerLiteral(value) == [kind |-> "IntegerLiteral", value |-> value]

BooleanLit(value) == [kind |-> "Boolean", value |-> value]

StringLiteral(value) == [kind |-> "StringLiteral", value |-> value]

PrefixExpression(operator, right) ==
    [kind |-> "PrefixExpression", operator |-> operator, right |-> right]

InfixExpression(left, operator, right) ==
    [kind |-> "InfixExpression", left |-> left, operator |-> operator, right |-> right]

IfExpression(condition, consequence, alternative) ==
    [kind |-> "IfExpression", condition |-> condition,
     consequence |-> consequence, alternative |-> alternative]

\* Parameters is a []*ast.Identifier
FunctionLiteral(parameters, body) ==
    [kind |-> "FunctionLiteral",
     parameters |-> [i \in 1..Len(parameters) |-> Identifier(parameters[i])],
     body |-> body]

CallExpression(function, arguments) ==
    [kind |-> "CallExpression", function |-> function, arguments |-> arguments]

ArrayLiteral(elements) == [kind |-> "ArrayLiteral", elements |-> elements]

\* Pairs is a Go map from key expression to value expression: pairs lists
\* its entries, each [key, value]
HashLiteral(pairs) == [kind |-> "HashLiteral", pairs |-> pairs]

IndexExpression(left, index) == [kind |-> "IndexExpression", left |-> left, index |-> index]

(***************************************************************************)
(* The parser (pkg/parser).  A parse function takes the Parser p and       *)
(* yields the node it returns (NoNode for nil) and the Parser after it; the *)
(* nodes carry the Token the Go nodes carry.                               *)
(***************************************************************************)
LOWEST == 1

EQUALS == 2

LESSGREATER == 3

SUM == 4

PRODUCT == 5

PREFIX == 6

CALL == 7

precedences ==
    [t \in {"==", "!=", "<", ">", "+", "-", "/", "*", "("} |->
        CASE t \in {"==", "!="} -> EQUALS
          [] t \in {"<", ">"} -> LESSGREATER
          [] t \in {"+", "-"} -> SUM
          [] t \in {"/", "*"} -> PRODUCT
          [] t = "(" -> CALL]

\* the Parser struct: its lexer, the two tokens it looks at, its errors.
\* Three history fields: dropped is the number of returns of nil that
\* followed a false expectPeek, consumed the number of tokens other than EOF
\* that nextToken has moved past, stalled the number of turns of a loop of
\* the parser that ended with no token consumed
Parser(lx, currentToken, peekToken, errors) ==
    [l |-> lx, currentToken |-> currentToken, peekToken |-> peekToken,
     errors |-> errors, dropped |-> 0, consumed |-> 0, stalled |-> 0]

\* the Parser after p.currentToken = p.peekToken; p.peekToken = next.tok;
\* the current token it moves past is consumed (the zero Token of a new
\* Parser and EOF are no tokens of the text)
Advanced(q, next) ==
    [q EXCEPT !.l = next.l, !.currentToken = q.peekToken, !.peekToken = next.tok,
              !.consumed = IF q.currentToken.type \in {"", "EOF"} THEN @ ELSE @ + 1]

\* the Parser at the end of a turn of a loop that began with the Parser
\* before
Turn(before, after) ==
    IF after.consumed > before.consumed THEN after
    ELSE [after EXCEPT !.stalled = @ + 1]

nextToken(q) == Advanced(q, NextToken(q.l))

NewParser(lx) ==
    nextToken(nextToken(Parser(lx, Token("", <<>>), Token("", <<>>), <<>>)))

currentTokenIS(p, tokenType) == p.currentToken.type = tokenType

peekTokenIs(p, tokenType) == p.peekToken.type = tokenType

peekError(p, tokenType) ==
    [p EXCEPT !.errors = Append(@, "expected next token to be " \o tokenType
                                     \o ", got " \o p.peekToken.type)]

\* expectPeek without the error message
expectPeek_Silent(p, tokenType) ==
    IF peekTokenIs(p, tokenType) THEN [ok |-> TRUE, p |-> nextToken(p)]
    ELSE [ok |-> FALSE, p |-> p]

\* expectPeek: whether the peek token was the expected one, and the Parser
\* after the call
expectPeek(p, tokenType) ==
    IF peekTokenIs(p, tokenType) THEN [ok |-> TRUE, p |-> nextToken(p)]
    ELSE [ok |-> FALSE, p |-> peekError(p, tokenType)]

peekPrecedence(p) ==
    IF p.peekToken.type \in DOMAIN precedences THEN precedences[p.peekToken.type]
    ELSE LOWEST

currentPrecedence(p) ==
    IF p.currentToken.type \in DOMAIN precedences
    THEN precedences[p.currentToken.type]
    ELSE LOWEST

noPrefixParseError(p, tokenType) ==
    [p EXCEPT !.errors = Append(@, "no prefix parse function for " \o tokenType
                                     \o " found")]

\* the token types with a prefix parse function, and with an infix one
prefixParseFns == {"IDENTIFIER", "INTEGER", "!", "-", "TRUE", "FALSE", "(", "IF",
                   "FUNCTION"}

infixParseFns == {"==", "!=", "<", ">", "+", "-", "/", "*", "("}

\* what a parse function returns: the node (NoNode for nil) and the Parser
Parsed(node, p) == [node |-> node, p |-> p]

\* return nil after a false expectPeek, counted in the history field
Dropped(node, p) == [node |-> node, p |-> [p EXCEPT !.dropped = @ + 1]]

\* a nil *ast.LetStatement in an ast.Statement: an interface value that is
\* not nil although the pointer it holds is
TypedNil(kind) == [kind |-> "nil *ast." \o kind]

DigitValue(ch) ==
    CHOOSE d \in 0..9 :
        <<"0", "1", "2", "3", "4", "5", "6", "7", "8", "9">>[d + 1] = ch

RECURSIVE StripZeros(_)
StripZeros(digits) ==
    IF Len(digits) > 1 /\ Head(digits) = "0" THEN StripZeros(Tail(digits)) ELSE digits

\* a > b for two decimal numerals of one length
RECURSIVE Greater(_, _)
Greater(a, b) ==
    IF Len(a) = 0 THEN FALSE
    ELSE IF DigitValue(Head(a)) # DigitValue(Head(b))
         THEN DigitValue(Head(a)) > DigitValue(Head(b))
    ELSE Greater(Tail(a), Tail(b))

RECURSIVE Decimal(_, _)
Decimal(digits, acc) ==
    IF Len(digits) = 0 THEN acc
    ELSE Decimal(Tail(digits), 10 * acc + DigitValue(Head(digits)))

MaxInt64 == <<"9", "2", "2", "3", "3", "7", "2", "0", "3", "6", "8", "5", "4", "7",
              "7", "5", "8", "0", "7">>

\* strconv.ParseInt(literal, 10, 64) on a literal of digits: a range error
\* above 9223372036854775807
ParseInt(literal) ==
    LET digits == StripZeros(literal)
    IN  IF Len(digits) > Len(MaxInt64)
           \/ (Len(digits) = Len(MaxInt64) /\ Greater(digits, MaxInt64))
        THEN [value |-> 0, err |-> TRUE]
        ELSE [value |-> Decimal(digits, 0), err |-> FALSE]

IdentifierAt(tok) ==
    [kind |-> "Identifier", token |-> tok, value |-> Concat(tok.literal)]

parseIdentifier(p) == Parsed(IdentifierAt(p.currentToken), p)

\* parseIntegerLiteral once strconv.ParseInt has returned
IntegerLiteralOf(p, value) ==
    IF value.err
    THEN Parsed(NoNode,
                [p EXCEPT !.errors =
                    Append(@, "could not parse \"" \o Concat(p.currentToken.literal)
                                \o "\" as integer")])
    ELSE Parsed([kind |-> "IntegerLiteral", token |-> p.currentToken,
                 value |-> value.value], p)

parseIntegerLiteral(p) == IntegerLiteralOf(p, ParseInt(p.currentToken.literal))

parseBoolean(p) ==
    Parsed([kind |-> "Boolean", token |-> p.currentToken,
            value |-> currentTokenIS(p, "TRUE")], p)

\* if p.peekTokenIs(token.SEMICOLON) { p.nextToken() }
skipSemicolon(p) == IF peekTokenIs(p, ";") THEN nextToken(p) ELSE p

\* Each parse function is written as a chain of operators, one for each
\* point of the function at which a call has returned: the operator takes
\* what the call returned and goes on from there.
RECURSIVE parseStatement(_), parseLetStatement(_), LetStatementName(_, _),
          LetStatementAssign(_, _, _), parseReturnStatement(_),
          parseExpressionStatement(_), parseExpression(_, _),
          parseInfixLoopFrom(_, _), parseInfixLoop(_, _, _), parsePrefix(_),
          parseInfix(_, _), parsePrefixExpression(_), parseInfixExpression(_, _),
          parseGroupedExpression(_), parseIfExpression(_), IfOpen(_, _),
          IfClose(_, _), IfBrace(_, _, _), IfConsequence(_, _, _), IfElse(_, _, _),
          IfElseBrace(_, _, _, _), parseBlockStatement(_),
          parseBlockLoop(_, _, _), BlockAppend(_, _, _, _), InfixTurn(_, _),
          parseFunctionLiteral(_), FunctionOpen(_, _), FunctionParameters(_, _),
          FunctionBrace(_, _, _), parseFunctionParameters(_),
          ParametersFirst(_), parseParametersLoop(_, _),
          ParametersNext(_, _), parseCallExpression(_, _),
          parseCallArguments(_), ArgumentsFirst(_), parseArgumentsLoop(_, _),
          ArgumentsNext(_, _, _)

\* the *ast.LetStatement of parseLetStatement as an ast.Statement
AsStatement(statement) ==
    IF statement.node = NoNode THEN Parsed(TypedNil("LetStatement"), statement.p)
    ELSE statement

parseStatement(p) ==
    IF currentTokenIS(p, "LET") THEN AsStatement(parseLetStatement(p))
    ELSE IF currentTokenIS(p, "RETURN") THEN parseReturnStatement(p)
    ELSE parseExpressionStatement(p)

\* a statement with the token at p and the value parsed; the ';' after it is
\* skipped
StatementOf(kind, p, value) ==
    Parsed([kind |-> kind, token |-> p.currentToken, value |-> value.node],
           skipSemicolon(value.p))

LetStatementOf(p, name, value) ==
    Parsed([kind |-> "LetStatement", token |-> p.currentToken,
            name |-> IdentifierAt(name), value |-> value.node],
           skipSemicolon(value.p))

parseLetStatement(p) == LetStatementName(p, expectPeek(p, "IDENTIFIER"))

LetStatementName(p, name) ==
    IF ~name.ok THEN Dropped(NoNode, name.p)
    ELSE LetStatementAssign(p, name.p.currentToken, expectPeek(name.p, "="))

LetStatementAssign(p, name, assign) ==
    IF ~assign.ok THEN Dropped(NoNode, assign.p)
    ELSE LetStatementOf(p, name, parseExpression(nextToken(assign.p), LOWEST))

parseReturnStatement(p) ==
    StatementOf("ReturnStatement", p, parseExpression(nextToken(p), LOWEST))

parseExpressionStatement(p) ==
    StatementOf("ExpressionStatement", p, parseExpression(p, LOWEST))

\* prefix := p.prefixParseFns[p.currentToken.Type]; prefix()
parsePrefix(p) ==
    IF p.currentToken.type = "IDENTIFIER" THEN parseIdentifier(p)
    ELSE IF p.currentToken.type = "INTEGER" THEN parseIntegerLiteral(p)
    ELSE IF p.currentToken.type \in {"!", "-"} THEN parsePrefixExpression(p)
    ELSE IF p.currentToken.type \in {"TRUE", "FALSE"} THEN parseBoolean(p)
    ELSE IF p.currentToken.type = "(" THEN parseGroupedExpression(p)
    ELSE IF p.currentToken.type = "IF" THEN parseIfExpression(p)
    ELSE parseFunctionLiteral(p)

\* infix := p.infixParseFns[p.currentToken.Type]; infix(left)
parseInfix(p, left) ==
    IF p.currentToken.type = "(" THEN parseCallExpression(p, left)
    ELSE parseInfixExpression(p, left)

parseExpression(p, precedence) ==
    IF p.currentToken.type \notin prefixParseFns
    THEN Parsed(NoNode, noPrefixParseError(p, p.currentToken.type))
    ELSE parseInfixLoopFrom(parsePrefix(p), precedence)

\* the for loop of parseExpression with leftExpression as returned
parseInfixLoopFrom(leftExpression, precedence) ==
    parseInfixLoop(leftExpression.p, leftExpression.node, precedence)

\* the for loop of parseExpression
parseInfixLoop(p, leftExpression, precedence) ==
    IF ~peekTokenIs(p, ";") /\ precedence < peekPrecedence(p)
    THEN IF p.peekToken.type \notin infixParseFns THEN Parsed(leftExpression, p)
         ELSE parseInfixLoopFrom(InfixTurn(p, parseInfix(nextToken(p), leftExpression)),
                                 precedence)
    ELSE Parsed(leftExpression, p)

\* the end of a turn of the loop: leftExpression = infix(leftExpression)
InfixTurn(p, leftExpression) ==
    Parsed(leftExpression.node, Turn(p, leftExpression.p))

PrefixExpressionOf(p, right) ==
    Parsed([kind |-> "PrefixExpression", token |-> p.currentToken,
            operator |-> Concat(p.currentToken.literal), right |-> right.node],
           right.p)

parsePrefixExpression(p) ==
    PrefixExpressionOf(p, parseExpression(nextToken(p), PREFIX))

InfixExpressionOf(p, left, right) ==
    Parsed([kind |-> "InfixExpression", token |-> p.currentToken,
            left |-> left, operator |-> Concat(p.currentToken.literal),
            right |-> right.node],
           right.p)

\* parseInfixExpression that parses its right operand at a precedence one
\* lower than its operator's
parseInfixExpression_RightAssociative(p, left) ==
    InfixExpressionOf(p, left,
                      parseExpression(nextToken(p), currentPrecedence(p) - 1))

parseInfixExpression(p, left) ==
    InfixExpressionOf(p, left, parseExpression(nextToken(p), currentPrecedence(p)))

\* return nil unless expectPeek(token.RPAREN) was true
GroupedOf(expression, close) ==
    IF ~close.ok THEN Dropped(NoNode, close.p) ELSE Parsed(expression.node, close.p)

GroupedClose(expression) == GroupedOf(expression, expectPeek(expression.p, ")"))

parseGroupedExpression(p) == GroupedClose(parseExpression(nextToken(p), LOWEST))

IfExpressionOf(p, condition, consequence, alternative) ==
    Parsed([kind |-> "IfExpression", token |-> p.currentToken,
            condition |-> condition.node, consequence |-> consequence.node,
            alternative |-> alternative.node],
           alternative.p)

parseIfExpression(p) == IfOpen(p, expectPeek(p, "("))

IfOpen(p, open) ==
    IF ~open.ok THEN Dropped(NoNode, open.p)
    ELSE IfClose(p, parseExpression(nextToken(open.p), LOWEST))

IfClose(p, condition) == IfBrace(p, condition, expectPeek(condition.p, ")"))

IfBrace(p, condition, close) ==
    IF ~close.ok THEN Dropped(NoNode, close.p)
    ELSE IfConsequence(p, condition, expectPeek(close.p, "{"))

IfConsequence(p, condition, brace) ==
    IF ~brace.ok THEN Dropped(NoNode, brace.p)
    ELSE IfElse(p, condition, parseBlockStatement(brace.p))

IfElse(p, condition, consequence) ==
    IF ~peekTokenIs(consequence.p, "ELSE")
    THEN IfExpressionOf(p, condition, consequence, Parsed(NoNode, consequence.p))
    ELSE IfElseBrace(p, condition, consequence,
                     expectPeek(nextToken(consequence.p), "{"))

IfElseBrace(p, condition, consequence, brace) ==
    IF ~brace.ok THEN Dropped(NoNode, brace.p)
    ELSE IfExpressionOf(p, condition, consequence, parseBlockStatement(brace.p))

parseBlockStatement(p) == parseBlockLoop(nextToken(p), p.currentToken, <<>>)

\* the for loop of parseBlockStatement
parseBlockLoop(p, token, statements) ==
    IF ~currentTokenIS(p, "}") /\ ~currentTokenIS(p, "EOF")
    THEN BlockAppend(p, token, statements, parseStatement(p))
    ELSE Parsed([kind |-> "BlockStatement", token |-> token,
                 statements |-> statements], p)

BlockAppend(p, token, statements, statement) ==
    parseBlockLoop(Turn(p, nextToken(statement.p)), token,
                   IF statement.node # NoNode THEN Append(statements, statement.node)
                   ELSE statements)

FunctionLiteralOf(p, parameters, body) ==
    Parsed([kind |-> "FunctionLiteral", token |-> p.currentToken,
            parameters |-> parameters.node, body |-> body.node],
           body.p)

parseFunctionLiteral(p) == FunctionOpen(p, expectPeek(p, "("))

FunctionOpen(p, open) ==
    IF ~open.ok THEN Dropped(NoNode, open.p)
    ELSE FunctionParameters(p, parseFunctionParameters(open.p))

FunctionParameters(p, parameters) ==
    FunctionBrace(p, parameters, expectPeek(parameters.p, "{"))

FunctionBrace(p, parameters, brace) ==
    IF ~brace.ok THEN Dropped(NoNode, brace.p)
    ELSE FunctionLiteralOf(p, parameters, parseBlockStatement(brace.p))

\* return nil, a nil slice, unless expectPeek(token.RPAREN) was true
ListClose(list, close) ==
    IF ~close.ok THEN Dropped(<<>>, close.p) ELSE Parsed(list.node, close.p)

ListOf(list) == ListClose(list, expectPeek(list.p, ")"))

ParametersFirst(p) == ListOf(parseParametersLoop(p, <<IdentifierAt(p.currentToken)>>))

parseFunctionParameters(p) ==
    IF peekTokenIs(p, ")") THEN Parsed(<<>>, nextToken(p))
    ELSE ParametersFirst(nextToken(p))

parseParametersLoop(p, identifiers) ==
    IF peekTokenIs(p, ",")
    THEN ParametersNext(Turn(p, nextToken(nextToken(p))), identifiers)
    ELSE Parsed(identifiers, p)

ParametersNext(p, identifiers) ==
    parseParametersLoop(p, Append(identifiers, IdentifierAt(p.currentToken)))

CallExpressionOf(p, function, arguments) ==
    Parsed([kind |-> "CallExpression", token |-> p.currentToken,
            function |-> function, arguments |-> arguments.node],
           arguments.p)

parseCallExpression(p, function) ==
    CallExpressionOf(p, function, parseCallArguments(p))

parseCallArguments(p) ==
    IF peekTokenIs(p, ")") THEN Parsed(<<>>, nextToken(p))
    ELSE ArgumentsFirst(parseExpression(nextToken(p), LOWEST))

ArgumentsFirst(first) == ListOf(parseArgumentsLoop(first.p, <<first.node>>))

parseArgumentsLoop(p, arguments) ==
    IF peekTokenIs(p, ",")
    THEN ArgumentsNext(p, arguments, parseExpression(nextToken(nextToken(p)), LOWEST))
    ELSE Parsed(arguments, p)

ArgumentsNext(p, arguments, next) ==
    parseArgumentsLoop(Turn(p, next.p), Append(arguments, next.node))

\* the for loop of ParseProgram
RECURSIVE parseProgramLoop(_, _), ProgramAppend(_, _, _)
parseProgramLoop(p, statements) ==
    IF p.currentToken.type # "EOF"
    THEN ProgramAppend(p, statements, parseStatement(p))
    ELSE Parsed(Program(statements), p)

ProgramAppend(p, statements, statement) ==
    parseProgramLoop(Turn(p, nextToken(statement.p)),
                     IF statement.node # NoNode THEN Append(statements, statement.node)
                     ELSE statements)

ParseProgram(p) == parseProgramLoop(p, <<>>)

(***************************************************************************)
(* The String methods of the nodes (pkg/ast), as bytes.                    *)
(***************************************************************************)
\* strings.Join(elems, ", ")
RECURSIVE Join(_)
Join(elems) ==
    IF Len(elems) = 0 THEN <<>>
    ELSE IF Len(elems) = 1 THEN elems[1]
    ELSE Head(elems) \o <<",", " ">> \o Join(Tail(elems))

RECURSIVE StringOf(_), StringOfAll(_), CallExpressionString(_)
\* the Strings of the statements one after the other
StringOfAll(statements) ==
    IF Len(statements) = 0 THEN <<>>
    ELSE StringOf(Head(statements)) \o StringOfAll(Tail(statements))

\* function(argument, argument)
CallExpressionString(node) ==
    StringOf(node.function) \o <<"(">>
        \o Join([i \in 1..Len(node.arguments) |-> StringOf(node.arguments[i])])
        \o <<")">>

StringOf(node) ==
    CASE node.kind \in {"Program", "BlockStatement"} -> StringOfAll(node.statements)
      [] node.kind = "LetStatement" ->
            node.token.literal \o <<" ">> \o StringOf(node.name) \o <<" ", "=", " ">>
                \o (IF node.value # NoNode THEN StringOf(node.value) ELSE <<>>)
                \o <<";">>
      [] node.kind = "ReturnStatement" ->
            node.token.literal \o <<" ">>
                \o (IF node.value # NoNode THEN StringOf(node.value) ELSE <<>>)
                \o <<";">>
      [] node.kind = "ExpressionStatement" ->
            IF node.value # NoNode THEN StringOf(node.value) ELSE <<>>
      [] node.kind \in {"Identifier", "IntegerLiteral", "Boolean"} ->
            node.token.literal
      [] node.kind = "PrefixExpression" ->
            <<"(">> \o node.token.literal \o StringOf(node.right) \o <<")">>
      [] node.kind = "InfixExpression" ->
            <<"(">> \o StringOf(node.left) \o <<" ">> \o node.token.literal \o <<" ">>
                \o StringOf(node.right) \o <<")">>
      [] node.kind = "IfExpression" ->
            <<"i", "f">> \o StringOf(node.condition) \o <<" ">>
                \o StringOf(node.consequence)
                \o (IF node.alternative # NoNode
                    THEN <<"e", "l", "s", "e", " ">> \o StringOf(node.alternative)
                    ELSE <<>>)
      [] node.kind = "FunctionLiteral" ->
            node.token.literal \o <<"(">>
                \o Join([i \in 1..Len(node.parameters) |-> StringOf(node.parameters[i])])
                \o <<")", " ">> \o StringOf(node.body)
      [] node.kind = "CallExpression" -> CallExpressionString(node)

(***************************************************************************)
(* Runtime values (pkg/object).  Nil is Go's nil interface value.          *)
(***************************************************************************)
Nil == [type |-> "nil"]

\* the package-level objects NULL, TRUE and FALSE are allocated once, before
\* any Eval; the objects Eval allocates get the addresses 1, 2, ...
NULL == [type |-> "NULL", addr |-> 0]

TRUEObj == [type |-> "BOOLEAN", value |-> TRUE, addr |-> 0 - 1]

FALSEObj == [type |-> "BOOLEAN", value |-> FALSE, addr |-> 0 - 2]

Integer(value) == [type |-> "INTEGER", value |-> value]

String(value, addr) == [type |-> "STRING", value |-> value, addr |-> addr]

Array(elements, addr) == [type |-> "ARRAY", elements |-> elements, addr |-> addr]

ReturnValue(value, addr) == [type |-> "RETURN_VALUE", value |-> value, addr |-> addr]

Error(message) == [type |-> "ERROR", message |-> message]

Function(parameters, body, env, addr) ==
    [type |-> "FUNCTION_OBJECT", parameters |-> parameters, body |-> body,
     env |-> env, addr |-> addr]

Builtin(name) == [type |-> "BUILTIN", name |-> name]

\* Pairs is a Go map from HashKey to HashPair{Key, Value}: pairs lists its
\* entries, each [hashKey, key, value]
Hash(pairs, addr) == [type |-> "HASH", pairs |-> pairs, addr |-> addr]

\* obj.Type(): the type tag of a non-nil object
Type(obj) == obj.type

(***************************************************************************)
(* Environment (pkg/object).  The heap envs maps an environment id to      *)
(* [store, outer]; outer = 0 is the nil parent.                            *)
(***************************************************************************)
NewEnvironment == [store |-> <<>>, outer |-> 0]

\* mutant: the new environment forgets its parent
NewEnclosedEnvironment_NoOuter(outer) == NewEnvironment

NewEnclosedEnvironment(outer) == [NewEnvironment EXCEPT !.outer = outer]

RECURSIVE Get(_, _, _)
Get(heap, e, key) ==
    IF key \in DOMAIN heap[e].store
    THEN [obj |-> heap[e].store[key], ok |-> TRUE]
    ELSE IF heap[e].outer # 0
         THEN Get(heap, heap[e].outer, key)
         ELSE [obj |-> Nil, ok |-> FALSE]

\* mutant: a name that an enclosing environment already binds is overwritten
\* there instead of being bound in e
RECURSIVE Set_InOwner(_, _, _, _)
Set_InOwner(heap, e, key, value) ==
    IF key \notin DOMAIN heap[e].store /\ heap[e].outer # 0
       /\ Get(heap, heap[e].outer, key).ok
    THEN Set_InOwner(heap, heap[e].outer, key, value)
    ELSE [heap EXCEPT ![e].store =
            [k \in (DOMAIN @) \cup {key} |-> IF k = key THEN value ELSE @[k]]]

Set(heap, e, key, value) ==
    [heap EXCEPT ![e].store =
        [k \in (DOMAIN @) \cup {key} |-> IF k = key THEN value ELSE @[k]]]

(***************************************************************************)
(* Pure helpers of the evaluator.                                          *)
(***************************************************************************)
nativeBooleanToBooleanObject_NewObject(input) ==
    [type |-> "BOOLEAN", value |-> input, addr |-> 0 - 3]

nativeBooleanToBooleanObject(input) == IF input THEN TRUEObj ELSE FALSEObj

isError(obj) == IF obj # Nil THEN Type(obj) = "ERROR" ELSE FALSE

\* obj == single for one of the shared objects NULL, TRUE and FALSE
Is(obj, single) == Type(obj) = Type(single) /\ obj = single

isTruthy_ZeroIsFalsey(object) ==
    IF Is(object, NULL) THEN FALSE
    ELSE IF Is(object, TRUEObj) THEN TRUE
    ELSE IF Is(object, FALSEObj) THEN FALSE
    ELSE IF Type(object) = "INTEGER" THEN object.value # 0
    ELSE TRUE

isTruthy(object) ==
    IF Is(object, NULL) THEN FALSE
    ELSE IF Is(object, TRUEObj) THEN TRUE
    ELSE IF Is(object, FALSEObj) THEN FALSE
    ELSE TRUE

unwrapReturnValue(result) ==
    IF result # Nil /\ Type(result) = "RETURN_VALUE" THEN result.value ELSE result

\* Go's == on two object.Object interface values: pointer identity.  A
\* builtin is the one object of the builtins table, every other object is
\* identified by its allocation.
SameObject(left, right) ==
    IF left = Nil \/ right = Nil THEN left = Nil /\ right = Nil
    ELSE IF Type(left) # Type(right) THEN FALSE
    ELSE IF Type(left) = "BUILTIN" THEN left.name = right.name
    ELSE IF Type(left) \in {"NULL", "BOOLEAN", "STRING", "ARRAY", "RETURN_VALUE",
                            "FUNCTION_OBJECT", "HASH"}
         THEN left.addr = right.addr
    ELSE FALSE

\* the outcome of an operation that ends in a Go runtime panic (nil
\* dereference, index out of range, integer division by zero)
Panic == [type |-> "panic"]

\* whether obj is the object allocated at address addr
AllocatedAt(obj, addr) ==
    /\ Type(obj) \in {"STRING", "ARRAY", "RETURN_VALUE", "FUNCTION_OBJECT", "HASH"}
    /\ obj.addr = addr

newError(message) == Error(message)

evalNopePrefixOperatorExpression(right) ==
    IF Is(right, TRUEObj) THEN FALSEObj
    ELSE IF Is(right, FALSEObj) THEN TRUEObj
    ELSE IF Is(right, NULL) THEN TRUEObj
    ELSE FALSEObj

evalMinusPrefixOperatorExpression(right) ==
    IF right = Nil THEN Panic
    ELSE IF Type(right) # "INTEGER"
         THEN newError("unknown operation: -" \o Type(right))
         ELSE Integer(0 - right.value)

evalPrefixExpression(operator, right) ==
    IF operator = "!" THEN evalNopePrefixOperatorExpression(right)
    ELSE IF operator = "-" THEN evalMinusPrefixOperatorExpression(right)
    ELSE IF right = Nil THEN Panic
    ELSE newError("unknown operation: " \o operator \o " " \o Type(right))

\* mutant: the quotient is rounded down
evalIntegerInfixExpression_FloorDivision(operator, left, right) ==
    LET leftValue == left.value
        rightValue == right.value
    IN  CASE operator = "+" -> Integer(leftValue + rightValue)
          [] operator = "-" -> Integer(leftValue - rightValue)
          [] operator = "*" -> Integer(leftValue * rightValue)
          [] operator = "/" -> IF rightValue = 0 THEN Panic
                               ELSE Integer(leftValue \div rightValue)
          [] operator = "<" -> nativeBooleanToBooleanObject(leftValue < rightValue)
          [] operator = ">" -> nativeBooleanToBooleanObject(leftValue > rightValue)
          [] operator = "==" -> nativeBooleanToBooleanObject(leftValue = rightValue)
          [] operator = "!=" -> nativeBooleanToBooleanObject(leftValue # rightValue)
          [] OTHER -> newError("unknown operation " \o Type(left) \o " "
                               \o operator \o " " \o Type(right))

\* Go's integer division truncates toward zero
Quotient(a, b) ==
    LET absA == IF a < 0 THEN 0 - a ELSE a
        absB == IF b < 0 THEN 0 - b ELSE b
        q == absA \div absB
    IN  IF (a < 0) # (b < 0) THEN 0 - q ELSE q

\* an evalIntegerInfixExpression that tests the divisor and returns an Error
evalIntegerInfixExpression_DivisorTested(operator, left, right) ==
    LET leftValue == left.value
        rightValue == right.value
    IN  CASE operator = "+" -> Integer(leftValue + rightValue)
          [] operator = "-" -> Integer(leftValue - rightValue)
          [] operator = "*" -> Integer(leftValue * rightValue)
          [] operator = "/" -> IF rightValue = 0 THEN newError("division by zero")
                               ELSE Integer(Quotient(leftValue, rightValue))
          [] operator = "<" -> nativeBooleanToBooleanObject(leftValue < rightValue)
          [] operator = ">" -> nativeBooleanToBooleanObject(leftValue > rightValue)
          [] operator = "==" -> nativeBooleanToBooleanObject(leftValue = rightValue)
          [] operator = "!=" -> nativeBooleanToBooleanObject(leftValue # rightValue)
          [] OTHER -> newError("unknown operation " \o Type(left) \o " "
                               \o operator \o " " \o Type(right))

evalIntegerInfixExpression(operator, left, right) ==
    LET leftValue == left.value
        rightValue == right.value
    IN  CASE operator = "+" -> Integer(leftValue + rightValue)
          [] operator = "-" -> Integer(leftValue - rightValue)
          [] operator = "*" -> Integer(leftValue * rightValue)
          [] operator = "/" -> IF rightValue = 0 THEN Panic
                               ELSE Integer(Quotient(leftValue, rightValue))
          [] operator = "<" -> nativeBooleanToBooleanObject(leftValue < rightValue)
          [] operator = ">" -> nativeBooleanToBooleanObject(leftValue > rightValue)
          [] operator = "==" -> nativeBooleanToBooleanObject(leftValue = rightValue)
          [] operator = "!=" -> nativeBooleanToBooleanObject(leftValue # rightValue)
          [] OTHER -> newError("unknown operation " \o Type(left) \o " "
                               \o operator \o " " \o Type(right))

evalStringInfixExpression(operator, left, right, addr) ==
    IF operator # "+"
    THEN newError("unknown operation: " \o Type(left) \o " " \o operator
                  \o " " \o Type(right))
    ELSE String(left.value \o right.value, addr)

\* The cases of the switch are tried in order; a case that calls Type() on
\* a nil operand panics.
evalInfixExpression(operator, left, right, addr) ==
    IF left = Nil THEN Panic
    ELSE IF Type(left) = "INTEGER" /\ right = Nil THEN Panic
    ELSE IF Type(left) = "INTEGER" /\ Type(right) = "INTEGER"
         THEN evalIntegerInfixExpression(operator, left, right)
    ELSE IF operator = "==" THEN nativeBooleanToBooleanObject(SameObject(left, right))
    ELSE IF operator = "!=" THEN nativeBooleanToBooleanObject(~SameObject(left, right))
    ELSE IF right = Nil THEN Panic
    ELSE IF Type(right) = "STRING" /\ Type(left) = "STRING"
         THEN evalStringInfixExpression(operator, left, right, addr)
    ELSE IF Type(left) # Type(right)
         THEN newError("type mismatch: " \o Type(left) \o " " \o operator
                       \o " " \o Type(right))
    ELSE newError("unknown operation: " \o Type(left) \o " " \o operator
                  \o " " \o Type(right))

evalArrayIndexExpression_LastIsNull(array, index) ==
    LET indexValue == index.value
        max == Len(array.elements) - 1
    IN  IF indexValue < 0 \/ indexValue > max - 1
        THEN NULL
        ELSE array.elements[indexValue + 1]

evalArrayIndexExpression(array, index) ==
    LET indexValue == index.value
        max == Len(array.elements) - 1
    IN  IF indexValue < 0 \/ indexValue > max
        THEN NULL
        ELSE array.elements[indexValue + 1]

\* key.(object.Hashable): Integer, Boolean and String have a HashKey method
Hashable(obj) == obj # Nil /\ Type(obj) \in {"INTEGER", "BOOLEAN", "STRING"}

\* obj.HashKey(): the type tag and a 64-bit value; the value of an Integer is
\* the integer, of a Boolean 1 or 0, of a String the digest of its bytes,
\* which stands here as the bytes themselves
HashKey(obj) ==
    [type |-> Type(obj),
     value |-> IF Type(obj) = "BOOLEAN" THEN (IF obj.value THEN 1 ELSE 0)
               ELSE obj.value]

\* Go's == on two HashKey structs
SameKey(a, b) == a.type = b.type /\ a.value = b.value

\* the entries of pairs stored under hashed
Stored(pairs, hashed) == {i \in 1..Len(pairs) : SameKey(pairs[i].hashKey, hashed)}

\* pairs[hashed] = HashPair{Key: key, Value: value}
Put(pairs, hashed, key, value) ==
    LET pair == [hashKey |-> hashed, key |-> key, value |-> value]
    IN  IF Stored(pairs, hashed) = {} THEN Append(pairs, pair)
        ELSE [i \in 1..Len(pairs) |->
                 IF SameKey(pairs[i].hashKey, hashed) THEN pair ELSE pairs[i]]

evalHashIndexExpression(hash, index) ==
    IF index = Nil THEN Panic
    ELSE IF ~Hashable(index) THEN newError("unusable as hash key: " \o Type(index))
    ELSE LET found == Stored(hash.pairs, HashKey(index))
         IN  IF found = {} THEN NULL
             ELSE hash.pairs[CHOOSE i \in found : TRUE].value

evalIndexExpression(left, index) ==
    IF left = Nil THEN Panic
    ELSE IF Type(left) = "ARRAY" /\ index = Nil THEN Panic
    ELSE IF Type(left) = "ARRAY" /\ Type(index) = "INTEGER"
         THEN evalArrayIndexExpression(left, index)
    ELSE IF Type(left) = "HASH" THEN evalHashIndexExpression(left, index)
    ELSE newError("index operator not supported: " \o Type(left))

(***************************************************************************)
(* Builtins.  A builtin returns [val, printed]: its value (or Panic) and   *)
(* the objects whose Inspect() text it wrote to standard output.           *)
(***************************************************************************)
BuiltinNames == {"len", "first", "last", "rest", "push", "puts"}

\* decimal text of a natural number (fmt's %d)
RECURSIVE Itoa(_)
Itoa(n) ==
    LET digit == <<"0", "1", "2", "3", "4", "5", "6", "7", "8", "9">>
    IN  IF n < 10 THEN digit[n + 1] ELSE Itoa(n \div 10) \o digit[(n % 10) + 1]

wrongNumberOfArguments(got, want) ==
    newError("wrong number of arguments. got: " \o Itoa(got) \o " want: " \o Itoa(want))

\* obj.Inspect() dereferences obj and, for a ReturnValue or an Array, the
\* objects it holds: it panics when one of them is nil
RECURSIVE InspectPanics(_)
InspectPanics(obj) ==
    IF obj = Nil THEN TRUE
    ELSE IF Type(obj) = "RETURN_VALUE" THEN InspectPanics(obj.value)
    ELSE IF Type(obj) = "ARRAY"
         THEN \E i \in 1..Len(obj.elements) : InspectPanics(obj.elements[i])
    ELSE FALSE

builtinLen(args) ==
    IF Len(args) # 1 THEN wrongNumberOfArguments(Len(args), 1)
    ELSE IF args[1] = Nil THEN Panic
    ELSE IF Type(args[1]) = "ARRAY" THEN Integer(Len(args[1].elements))
    ELSE IF Type(args[1]) = "STRING" THEN Integer(Len(args[1].value))
    ELSE newError("argument to len not supported, got: " \o Type(args[1]))

builtinFirst(args) ==
    IF Len(args) # 1 THEN wrongNumberOfArguments(Len(args), 1)
    ELSE IF args[1] = Nil THEN Panic
    ELSE IF Type(args[1]) # "ARRAY"
         THEN newError("argument to first must be an array, got: " \o Type(args[1]))
    ELSE IF Len(args[1].elements) > 0 THEN args[1].elements[1]
    ELSE NULL

builtinLast(args) ==
    IF Len(args) # 1 THEN wrongNumberOfArguments(Len(args), 1)
    ELSE IF args[1] = Nil THEN Panic
    ELSE IF Type(args[1]) # "ARRAY"
         THEN newError("argument to last must be an array, got: " \o Type(args[1]))
    ELSE IF Len(args[1].elements) > 0 THEN args[1].elements[Len(args[1].elements)]
    ELSE NULL

builtinRest(args, addr) ==
    IF Len(args) # 1 THEN wrongNumberOfArguments(Len(args), 1)
    ELSE IF args[1] = Nil THEN Panic
    ELSE IF Type(args[1]) # "ARRAY"
         THEN newError("argument to rest must be an array, got: " \o Type(args[1]))
    ELSE IF Len(args[1].elements) > 0 THEN Array(Tail(args[1].elements), addr)
    ELSE NULL

\* push that appends to the array it is given instead of a copy
builtinPush_InPlace(args, addr) ==
    IF Len(args) # 2 THEN wrongNumberOfArguments(Len(args), 2)
    ELSE IF args[1] = Nil THEN Panic
    ELSE IF Type(args[1]) # "ARRAY"
         THEN newError("argument to push must be an array, got: " \o Type(args[1]))
    ELSE Array(Append(args[1].elements, args[2]), args[1].addr)

builtinPush(args, addr) ==
    IF Len(args) # 2 THEN wrongNumberOfArguments(Len(args), 2)
    ELSE IF args[1] = Nil THEN Panic
    ELSE IF Type(args[1]) # "ARRAY"
         THEN newError("argument to push must be an array, got: " \o Type(args[1]))
    ELSE Array(Append(args[1].elements, args[2]), addr)

\* puts prints its arguments in order and stops at the first one whose
\* Inspect() panics
builtinPuts(args) ==
    LET bad == {i \in 1..Len(args) : InspectPanics(args[i])}
        firstBad == CHOOSE i \in bad : \A j \in bad : i <= j
    IN  IF bad = {} THEN [val |-> NULL, printed |-> args]
        ELSE [val |-> Panic, printed |-> SubSeq(args, 1, firstBad - 1)]

builtins(name, args, addr) ==
    CASE name = "len" -> [val |-> builtinLen(args), printed |-> <<>>]
      [] name = "first" -> [val |-> builtinFirst(args), printed |-> <<>>]
      [] name = "last" -> [val |-> builtinLast(args), printed |-> <<>>]
      [] name = "rest" -> [val |-> builtinRest(args, addr), printed |-> <<>>]
      [] name = "push" -> [val |-> builtinPush(args, addr), printed |-> <<>>]
      [] name = "puts" -> builtinPuts(args)

evalIdentifier(heap, node, env) ==
    IF Get(heap, env, node.value).ok THEN Get(heap, env, node.value).obj
    ELSE IF node.value \in BuiltinNames THEN Builtin(node.value)
    ELSE newError("identifier not found: " \o node.value)

\* binds parameter i to argument i; args[i] is out of range, and the call
\* panics, when there are fewer arguments than parameters
RECURSIVE BindParameters(_, _, _, _, _)
BindParameters(heap, e, parameters, args, i) ==
    IF i > Len(parameters) THEN heap
    ELSE BindParameters(Set(heap, e, parameters[i].value, args[i]),
                        e, parameters, args, i + 1)

\* an extendFunctionEnv that stops binding where the arguments end
extendFunctionEnv_BindsWhatIsGiven(heap, fn, args) ==
    LET given == IF Len(args) < Len(fn.parameters) THEN Len(args)
                 ELSE Len(fn.parameters)
    IN  [type |-> "env", env |-> Len(heap) + 1,
         heap |-> BindParameters(Append(heap, NewEnclosedEnvironment(fn.env)),
                                 Len(heap) + 1, SubSeq(fn.parameters, 1, given),
                                 args, 1)]

\* args[i] is out of range, a run-time panic, when the arguments are fewer
\* than the parameters
extendFunctionEnv(heap, fn, args) ==
    IF Len(args) < Len(fn.parameters) THEN Panic
    ELSE [type |-> "env", env |-> Len(heap) + 1,
          heap |-> BindParameters(Append(heap, NewEnclosedEnvironment(fn.env)),
                                  Len(heap) + 1, fn.parameters, args, 1)]

(***************************************************************************)
(* The call stack.  ctl is either a pending call Eval(node, env), the      *)
(* value an evaluation returns to the frame on top of the stack, the list  *)
(* evalExpressions returns, or the end of the process in a panic.          *)
(***************************************************************************)
Call(node, env) == [mode |-> "eval", node |-> node, env |-> env]

Return(val) == [mode |-> "ret", val |-> val]

ReturnList(list) == [mode |-> "retList", list |-> list]

Panicked == [mode |-> "panic"]

Top == stack[Len(stack)]

Pop == SubSeq(stack, 1, Len(stack) - 1)

Calling(kind) == ctl.mode = "eval" /\ ctl.node.kind = kind

Resuming(at) == ctl.mode = "ret" /\ stack # <<>> /\ Top.at = at

ResumingList(at) == ctl.mode = "retList" /\ stack # <<>> /\ Top.at = at

\* the value of Eval(program, env) once it has returned
Done == ctl.mode = "ret" /\ stack = <<>>

\* returns val to the caller, or ends in a panic; allocates val when it is
\* the object made at nextAddr
Finish(val, newStack) ==
    /\ ctl' = IF val = Panic THEN Panicked ELSE Return(val)
    /\ stack' = newStack
    /\ nextAddr' = IF val # Panic /\ val # Nil /\ AllocatedAt(val, nextAddr)
                   THEN nextAddr + 1 ELSE nextAddr

\* case *ast.Program / evalProgram: the first statement, if any
EvalProgram ==
    /\ Calling("Program")
    /\ IF ctl.node.statements = <<>>
       THEN /\ ctl' = Return(Nil)
            /\ stack' = stack
       ELSE /\ stack' = Append(stack, [at |-> "evalProgram",
                                       statements |-> ctl.node.statements,
                                       i |-> 1, env |-> ctl.env])
            /\ ctl' = Call(ctl.node.statements[1], ctl.env)
    /\ UNCHANGED <<repl, inspected, parser, parsed, l, returned, testInput, program, envs, nextAddr, out>>

\* mutant: the loop does not stop at a statement that yields an Error
evalProgramLoop_NoErrorStop ==
    /\ Resuming("evalProgram")
    /\ LET result == ctl.val
           frame == Top
       IN  IF Type(result) = "RETURN_VALUE"
           THEN ctl' = Return(result.value) /\ stack' = Pop
           ELSE IF frame.i < Len(frame.statements)
           THEN /\ stack' = [stack EXCEPT ![Len(stack)].i = frame.i + 1]
                /\ ctl' = Call(frame.statements[frame.i + 1], frame.env)
           ELSE ctl' = Return(result) /\ stack' = Pop
    /\ UNCHANGED <<repl, inspected, parser, parsed, l, returned, testInput, program, envs, nextAddr, out>>

\* evalProgram: the loop body after Eval(statement, env) has returned
evalProgramLoop ==
    /\ Resuming("evalProgram")
    /\ LET result == ctl.val
           frame == Top
       IN  IF Type(result) = "RETURN_VALUE"
           THEN ctl' = Return(result.value) /\ stack' = Pop
           ELSE IF Type(result) = "ERROR"
           THEN ctl' = Return(result) /\ stack' = Pop
           ELSE IF frame.i < Len(frame.statements)
           THEN /\ stack' = [stack EXCEPT ![Len(stack)].i = frame.i + 1]
                /\ ctl' = Call(frame.statements[frame.i + 1], frame.env)
           ELSE ctl' = Return(result) /\ stack' = Pop
    /\ UNCHANGED <<repl, inspected, parser, parsed, l, returned, testInput, program, envs, nextAddr, out>>

\* case *ast.ExpressionStatement: return Eval(node.Value, env)
EvalExpressionStatement ==
    /\ Calling("ExpressionStatement")
    /\ ctl' = Call(ctl.node.value, ctl.env)
    /\ UNCHANGED <<repl, inspected, parser, parsed, l, returned, testInput, program, stack, envs, nextAddr, out>>

\* case *ast.BlockStatement / evalBlockStatements: the first statement
EvalBlockStatement ==
    /\ Calling("BlockStatement")
    /\ IF ctl.node.statements = <<>>
       THEN /\ ctl' = Return(Nil)
            /\ stack' = stack
       ELSE /\ stack' = Append(stack, [at |-> "evalBlockStatements",
                                       statements |-> ctl.node.statements,
                                       i |-> 1, env |-> ctl.env])
            /\ ctl' = Call(ctl.node.statements[1], ctl.env)
    /\ UNCHANGED <<repl, inspected, parser, parsed, l, returned, testInput, program, envs, nextAddr, out>>

\* evalBlockStatements: the loop body after Eval(statement, env) has returned
evalBlockStatementsLoop ==
    /\ Resuming("evalBlockStatements")
    /\ LET result == ctl.val
           frame == Top
       IN  IF result # Nil /\ (Type(result) = "RETURN_VALUE" \/ Type(result) = "ERROR")
           THEN ctl' = Return(result) /\ stack' = Pop
           ELSE IF frame.i < Len(frame.statements)
           THEN /\ stack' = [stack EXCEPT ![Len(stack)].i = frame.i + 1]
                /\ ctl' = Call(frame.statements[frame.i + 1], frame.env)
           ELSE ctl' = Return(result) /\ stack' = Pop
    /\ UNCHANGED <<repl, inspected, parser, parsed, l, returned, testInput, program, envs, nextAddr, out>>

\* case *ast.ReturnStatement: value := Eval(node.Value, env)
EvalReturnStatement ==
    /\ Calling("ReturnStatement")
    /\ stack' = Append(stack, [at |-> "ReturnStatement"])
    /\ ctl' = Call(ctl.node.value, ctl.env)
    /\ UNCHANGED <<repl, inspected, parser, parsed, l, returned, testInput, program, envs, nextAddr, out>>

\* case *ast.ReturnStatement: after value has been evaluated
ReturnStatementResume ==
    /\ Resuming("ReturnStatement")
    /\ LET value == ctl.val
       IN  IF isError(value)
           THEN Finish(value, Pop)
           ELSE Finish(ReturnValue(value, nextAddr), Pop)
    /\ UNCHANGED <<repl, inspected, parser, parsed, l, returned, testInput, program, envs, out>>

\* case *ast.LetStatement: value := Eval(node.Value, env)
EvalLetStatement ==
    /\ Calling("LetStatement")
    /\ stack' = Append(stack, [at |-> "LetStatement", name |-> ctl.node.name.value,
                               env |-> ctl.env])
    /\ ctl' = Call(ctl.node.value, ctl.env)
    /\ UNCHANGED <<repl, inspected, parser, parsed, l, returned, testInput, program, envs, nextAddr, out>>

\* mutant: the name is bound without looking at the value
LetStatementResume_NoErrorCheck ==
    /\ Resuming("LetStatement")
    /\ envs' = Set(envs, Top.env, Top.name, ctl.val)
    /\ ctl' = Return(Nil)
    /\ stack' = Pop
    /\ UNCHANGED <<repl, inspected, parser, parsed, l, returned, testInput, program, nextAddr, out>>

\* case *ast.LetStatement: after value has been evaluated; once the name is
\* set, control leaves the switch and Eval returns nil
LetStatementResume ==
    /\ Resuming("LetStatement")
    /\ LET value == ctl.val
       IN  IF isError(value)
           THEN /\ ctl' = Return(value)
                /\ envs' = envs
           ELSE /\ envs' = Set(envs, Top.env, Top.name, value)
                /\ ctl' = Return(Nil)
    /\ stack' = Pop
    /\ UNCHANGED <<repl, inspected, parser, parsed, l, returned, testInput, program, nextAddr, out>>

\* case *ast.IntegerLiteral
EvalIntegerLiteral ==
    /\ Calling("IntegerLiteral")
    /\ ctl' = Return(Integer(ctl.node.value))
    /\ UNCHANGED <<repl, inspected, parser, parsed, l, returned, testInput, program, stack, envs, nextAddr, out>>

\* case *ast.Boolean
EvalBoolean ==
    /\ Calling("Boolean")
    /\ ctl' = Return(nativeBooleanToBooleanObject(ctl.node.value))
    /\ UNCHANGED <<repl, inspected, parser, parsed, l, returned, testInput, program, stack, envs, nextAddr, out>>

\* case *ast.StringLiteral
EvalStringLiteral ==
    /\ Calling("StringLiteral")
    /\ Finish(String(ctl.node.value, nextAddr), stack)
    /\ UNCHANGED <<repl, inspected, parser, parsed, l, returned, testInput, program, envs, out>>

\* case *ast.Identifier
EvalIdentifier ==
    /\ Calling("Identifier")
    /\ ctl' = Return(evalIdentifier(envs, ctl.node, ctl.env))
    /\ UNCHANGED <<repl, inspected, parser, parsed, l, returned, testInput, program, stack, envs, nextAddr, out>>

\* mutant: the function keeps a copy of env as it is at the definition
EvalFunctionLiteral_CopiesEnv ==
    /\ Calling("FunctionLiteral")
    /\ envs' = Append(envs, envs[ctl.env])
    /\ Finish(Function(ctl.node.parameters, ctl.node.body, Len(envs) + 1, nextAddr), stack)
    /\ UNCHANGED <<repl, inspected, parser, parsed, l, returned, testInput, program, out>>

\* case *ast.FunctionLiteral: the function keeps a reference to env
EvalFunctionLiteral ==
    /\ Calling("FunctionLiteral")
    /\ Finish(Function(ctl.node.parameters, ctl.node.body, ctl.env, nextAddr), stack)
    /\ UNCHANGED <<repl, inspected, parser, parsed, l, returned, testInput, program, envs, out>>

\* case *ast.PrefixExpression: right := Eval(node.Right, env)
EvalPrefixExpression ==
    /\ Calling("PrefixExpression")
    /\ stack' = Append(stack, [at |-> "PrefixExpression", operator |-> ctl.node.operator])
    /\ ctl' = Call(ctl.node.right, ctl.env)
    /\ UNCHANGED <<repl, inspected, parser, parsed, l, returned, testInput, program, envs, nextAddr, out>>

\* case *ast.PrefixExpression: after right has been evaluated
PrefixExpressionResume ==
    /\ Resuming("PrefixExpression")
    /\ LET right == ctl.val
       IN  IF isError(right)
           THEN Finish(right, Pop)
           ELSE Finish(evalPrefixExpression(Top.operator, right), Pop)
    /\ UNCHANGED <<repl, inspected, parser, parsed, l, returned, testInput, program, envs, out>>

\* case *ast.InfixExpression: left := Eval(node.Left, env)
EvalInfixExpression ==
    /\ Calling("InfixExpression")
    /\ stack' = Append(stack, [at |-> "InfixExpression.Left", node |-> ctl.node,
                               env |-> ctl.env])
    /\ ctl' = Call(ctl.node.left, ctl.env)
    /\ UNCHANGED <<repl, inspected, parser, parsed, l, returned, testInput, program, envs, nextAddr, out>>

\* case *ast.InfixExpression: after left has been evaluated
InfixExpressionLeftResume ==
    /\ Resuming("InfixExpression.Left")
    /\ LET left == ctl.val
       IN  IF isError(left)
           THEN ctl' = Return(left) /\ stack' = Pop
           ELSE /\ stack' = Append(Pop, [at |-> "InfixExpression.Right",
                                         operator |-> Top.node.operator,
                                         left |-> left])
                /\ ctl' = Call(Top.node.right, Top.env)
    /\ UNCHANGED <<repl, inspected, parser, parsed, l, returned, testInput, program, envs, nextAddr, out>>

\* case *ast.InfixExpression: after right has been evaluated
InfixExpressionRightResume ==
    /\ Resuming("InfixExpression.Right")
    /\ LET right == ctl.val
       IN  IF isError(right)
           THEN Finish(right, Pop)
           ELSE Finish(evalInfixExpression(Top.operator, Top.left, right, nextAddr), Pop)
    /\ UNCHANGED <<repl, inspected, parser, parsed, l, returned, testInput, program, envs, out>>

\* case *ast.IfExpression / evalIfExpression: condition := Eval(i.Condition, env)
EvalIfExpression ==
    /\ Calling("IfExpression")
    /\ stack' = Append(stack, [at |-> "evalIfExpression", node |-> ctl.node,
                               env |-> ctl.env])
    /\ ctl' = Call(ctl.node.condition, ctl.env)
    /\ UNCHANGED <<repl, inspected, parser, parsed, l, returned, testInput, program, envs, nextAddr, out>>

\* an evalIfExpression that evaluates the chosen block in an environment of
\* its own, enclosed in env
evalIfExpressionResume_EnclosedBlock ==
    /\ Resuming("evalIfExpression")
    /\ LET condition == ctl.val
           i == Top.node
           chosen == IF isTruthy(condition) THEN i.consequence ELSE i.alternative
       IN  IF isError(condition) THEN ctl' = Return(condition) /\ envs' = envs
           ELSE IF chosen # NoNode
           THEN /\ envs' = Append(envs, NewEnclosedEnvironment(Top.env))
                /\ ctl' = Call(chosen, Len(envs) + 1)
           ELSE ctl' = Return(NULL) /\ envs' = envs
    /\ stack' = Pop
    /\ UNCHANGED <<repl, inspected, parser, parsed, l, returned, testInput, program, nextAddr, out>>

\* evalIfExpression: after the condition has been evaluated; the chosen
\* block is evaluated in the same env and its value returned as it is
evalIfExpressionResume ==
    /\ Resuming("evalIfExpression")
    /\ LET condition == ctl.val
           i == Top.node
       IN  IF isError(condition) THEN ctl' = Return(condition)
           ELSE IF isTruthy(condition) THEN ctl' = Call(i.consequence, Top.env)
           ELSE IF i.alternative # NoNode THEN ctl' = Call(i.alternative, Top.env)
           ELSE ctl' = Return(NULL)
    /\ stack' = Pop
    /\ UNCHANGED <<repl, inspected, parser, parsed, l, returned, testInput, program, envs, nextAddr, out>>

\* evalExpressions(expressions, env), called from the frame caller: the
\* first expression, if any
evalExpressionsStart(expressions, env, caller) ==
    IF expressions = <<>>
    THEN /\ ctl' = ReturnList(<<>>)
         /\ stack' = caller
    ELSE /\ stack' = Append(caller, [at |-> "evalExpressions",
                                     expressions |-> expressions, i |-> 1,
                                     evaluated |-> <<>>, env |-> env])
         /\ ctl' = Call(expressions[1], env)

\* mutant: the loop goes on after an expression that yields an Error
evalExpressionsLoop_NoErrorStop ==
    /\ Resuming("evalExpressions")
    /\ LET result == ctl.val
           frame == Top
       IN  IF frame.i < Len(frame.expressions)
           THEN /\ stack' = [stack EXCEPT ![Len(stack)].i = frame.i + 1,
                                          ![Len(stack)].evaluated = Append(@, result)]
                /\ ctl' = Call(frame.expressions[frame.i + 1], frame.env)
           ELSE /\ ctl' = ReturnList(Append(frame.evaluated, result))
                /\ stack' = Pop
    /\ UNCHANGED <<repl, inspected, parser, parsed, l, returned, testInput, program, envs, nextAddr, out>>

\* evalExpressions: the loop body after Eval(expression, env) has returned
evalExpressionsLoop ==
    /\ Resuming("evalExpressions")
    /\ LET result == ctl.val
           frame == Top
       IN  IF isError(result)
           THEN ctl' = ReturnList(<<result>>) /\ stack' = Pop
           ELSE IF frame.i < Len(frame.expressions)
           THEN /\ stack' = [stack EXCEPT ![Len(stack)].i = frame.i + 1,
                                          ![Len(stack)].evaluated = Append(@, result)]
                /\ ctl' = Call(frame.expressions[frame.i + 1], frame.env)
           ELSE /\ ctl' = ReturnList(Append(frame.evaluated, result))
                /\ stack' = Pop
    /\ UNCHANGED <<repl, inspected, parser, parsed, l, returned, testInput, program, envs, nextAddr, out>>

\* case *ast.CallExpression: function := Eval(node.Function, env)
EvalCallExpression ==
    /\ Calling("CallExpression")
    /\ stack' = Append(stack, [at |-> "CallExpression.Function", node |-> ctl.node,
                               env |-> ctl.env])
    /\ ctl' = Call(ctl.node.function, ctl.env)
    /\ UNCHANGED <<repl, inspected, parser, parsed, l, returned, testInput, program, envs, nextAddr, out>>

\* case *ast.CallExpression: after the callee has been evaluated
CallExpressionFunctionResume ==
    /\ Resuming("CallExpression.Function")
    /\ LET function == ctl.val
       IN  IF isError(function)
           THEN ctl' = Return(function) /\ stack' = Pop
           ELSE evalExpressionsStart(Top.node.arguments, Top.env,
                    Append(Pop, [at |-> "CallExpression.Arguments",
                                 function |-> function]))
    /\ UNCHANGED <<repl, inspected, parser, parsed, l, returned, testInput, program, envs, nextAddr, out>>

\* applyFunctions(fn, args), called in place of the frame on top of the
\* stack.  The frame of a function call remembers the heap at the call.
applyFunctions(fn, args) ==
    IF fn = Nil
    THEN /\ ctl' = Panicked
         /\ UNCHANGED <<stack, envs, nextAddr, out>>
    ELSE IF Type(fn) = "FUNCTION_OBJECT"
    THEN LET extendedEnv == extendFunctionEnv(envs, fn, args)
         IN  IF extendedEnv = Panic
             THEN /\ ctl' = Panicked
                  /\ UNCHANGED <<stack, envs, nextAddr, out>>
             ELSE /\ envs' = extendedEnv.heap
                  /\ stack' = Append(Pop, [at |-> "applyFunctions",
                                           function |-> fn,
                                           extendedEnv |-> extendedEnv.env,
                                           envsAtCall |-> envs])
                  /\ ctl' = Call(fn.body, extendedEnv.env)
                  /\ UNCHANGED <<nextAddr, out>>
    ELSE IF Type(fn) = "BUILTIN"
    THEN LET r == builtins(fn.name, args, nextAddr)
         IN  /\ Finish(r.val, Pop)
             /\ out' = out \o r.printed
             /\ envs' = envs
    ELSE /\ ctl' = Return(newError("not a function: " \o Type(fn)))
         /\ stack' = Pop
         /\ UNCHANGED <<envs, nextAddr, out>>

\* case *ast.CallExpression: after the arguments have been evaluated
CallExpressionArgumentsResume ==
    /\ ResumingList("CallExpression.Arguments")
    /\ LET args == ctl.list
       IN  IF Len(args) = 1 /\ isError(args[1])
           THEN /\ ctl' = Return(args[1])
                /\ stack' = Pop
                /\ UNCHANGED <<envs, nextAddr, out>>
           ELSE applyFunctions(Top.function, args)
    /\ UNCHANGED <<repl, inspected, parser, parsed, l, returned, testInput, program>>

\* applyFunctions that returns what the body evaluated to as it is
applyFunctionsResume_NoUnwrap ==
    /\ Resuming("applyFunctions")
    /\ ctl' = Return(ctl.val)
    /\ stack' = Pop
    /\ UNCHANGED <<repl, inspected, parser, parsed, l, returned, testInput, program, envs, nextAddr, out>>

\* applyFunctions: after the body of the function has been evaluated
applyFunctionsResume ==
    /\ Resuming("applyFunctions")
    /\ ctl' = Return(unwrapReturnValue(ctl.val))
    /\ stack' = Pop
    /\ UNCHANGED <<repl, inspected, parser, parsed, l, returned, testInput, program, envs, nextAddr, out>>

\* case *ast.ArrayLiteral: elements := evalExpressions(node.Elements, env)
EvalArrayLiteral ==
    /\ Calling("ArrayLiteral")
    /\ evalExpressionsStart(ctl.node.elements, ctl.env,
                            Append(stack, [at |-> "ArrayLiteral"]))
    /\ UNCHANGED <<repl, inspected, parser, parsed, l, returned, testInput, program, envs, nextAddr, out>>

\* case *ast.ArrayLiteral: after the elements have been evaluated
ArrayLiteralResume ==
    /\ ResumingList("ArrayLiteral")
    /\ LET elements == ctl.list
       IN  IF Len(elements) = 1 /\ isError(elements[1])
           THEN Finish(elements[1], Pop)
           ELSE Finish(Array(elements, nextAddr), Pop)
    /\ UNCHANGED <<repl, inspected, parser, parsed, l, returned, testInput, program, envs, out>>

\* case *ast.IndexExpression: left := Eval(node.Left, env)
EvalIndexExpression ==
    /\ Calling("IndexExpression")
    /\ stack' = Append(stack, [at |-> "IndexExpression.Left", node |-> ctl.node,
                               env |-> ctl.env])
    /\ ctl' = Call(ctl.node.left, ctl.env)
    /\ UNCHANGED <<repl, inspected, parser, parsed, l, returned, testInput, program, envs, nextAddr, out>>

\* case *ast.IndexExpression: after left has been evaluated
IndexExpressionLeftResume ==
    /\ Resuming("IndexExpression.Left")
    /\ LET left == ctl.val
       IN  IF isError(left)
           THEN ctl' = Return(left) /\ stack' = Pop
           ELSE /\ stack' = Append(Pop, [at |-> "IndexExpression.Index", left |-> left])
                /\ ctl' = Call(Top.node.index, Top.env)
    /\ UNCHANGED <<repl, inspected, parser, parsed, l, returned, testInput, program, envs, nextAddr, out>>

\* case *ast.IndexExpression: after index has been evaluated
IndexExpressionIndexResume ==
    /\ Resuming("IndexExpression.Index")
    /\ LET index == ctl.val
       IN  IF isError(index)
           THEN ctl' = Return(index)
           ELSE ctl' = IF evalIndexExpression(Top.left, index) = Panic
                       THEN Panicked
                       ELSE Return(evalIndexExpression(Top.left, index))
    /\ stack' = Pop
    /\ UNCHANGED <<repl, inspected, parser, parsed, l, returned, testInput, program, envs, nextAddr, out>>

\* evalHashLiteral is at the pair i of node.Pairs, todo are the pairs the
\* range loop has not reached yet, pairs the map built so far
HashLiteralFrame(node, env, i, todo, pairs) ==
    [at |-> "evalHashLiteral.Key", node |-> node, env |-> env, i |-> i,
     todo |-> todo, pairs |-> pairs]

\* case *ast.HashLiteral / evalHashLiteral: the range loop takes the entries
\* of the map node.Pairs in an order the Go runtime chooses
EvalHashLiteral ==
    /\ Calling("HashLiteral")
    /\ LET node == ctl.node
           all == 1..Len(node.pairs)
       IN  IF all = {}
           THEN Finish(Hash(<<>>, nextAddr), stack)
           ELSE \E i \in all :
                   /\ stack' = Append(stack, HashLiteralFrame(node, ctl.env, i,
                                                              all \ {i}, <<>>))
                   /\ ctl' = Call(node.pairs[i].key, ctl.env)
                   /\ nextAddr' = nextAddr
    /\ UNCHANGED <<repl, inspected, parser, parsed, l, returned, testInput, program, envs, out>>

\* evalHashLiteral: after the key of a pair has been evaluated
evalHashLiteralKeyResume ==
    /\ Resuming("evalHashLiteral.Key")
    /\ LET key == ctl.val
       IN  IF isError(key) THEN ctl' = Return(key) /\ stack' = Pop
           ELSE IF key = Nil THEN ctl' = Panicked /\ stack' = Pop
           ELSE IF ~Hashable(key)
                THEN /\ ctl' = Return(newError("unable to hash key:  " \o Type(key)))
                     /\ stack' = Pop
           ELSE /\ stack' = Append(Pop, [at |-> "evalHashLiteral.Value",
                                         node |-> Top.node, env |-> Top.env,
                                         todo |-> Top.todo, pairs |-> Top.pairs,
                                         key |-> key])
                /\ ctl' = Call(Top.node.pairs[Top.i].value, Top.env)
    /\ UNCHANGED <<repl, inspected, parser, parsed, l, returned, testInput, program, envs, nextAddr, out>>

\* evalHashLiteral: after the value of a pair has been evaluated; the pair
\* is stored and the loop goes on to another pair, or the Hash is returned
evalHashLiteralValueResume ==
    /\ Resuming("evalHashLiteral.Value")
    /\ LET value == ctl.val
           pairs == Put(Top.pairs, HashKey(Top.key), Top.key, value)
       IN  IF isError(value) THEN Finish(value, Pop)
           ELSE IF Top.todo = {} THEN Finish(Hash(pairs, nextAddr), Pop)
           ELSE \E i \in Top.todo :
                   /\ stack' = Append(Pop, HashLiteralFrame(Top.node, Top.env, i,
                                                            Top.todo \ {i}, pairs))
                   /\ ctl' = Call(Top.node.pairs[i].key, Top.env)
                   /\ nextAddr' = nextAddr
    /\ UNCHANGED <<repl, inspected, parser, parsed, l, returned, testInput, program, envs, out>>

(***************************************************************************)
(* The programs the model evaluates: ASTs the parser produces, built from  *)
(* small pools of expressions and statements.                              *)
(***************************************************************************)
Literals == 0..MaxLit

\* 1 + true: Error "type mismatch: INTEGER + BOOLEAN"
TypeMismatch == InfixExpression(IntegerLiteral(1), "+", BooleanLit(TRUE))

\* nope: Error "identifier not found: nope"
NotFound == Identifier("nope")

\* if (true) { return 1 }
IfReturn ==
    IfExpression(BooleanLit(TRUE),
                 BlockStatement(<<ReturnStatement(IntegerLiteral(1))>>), NoNode)

\* fn() { }()
EmptyCall == CallExpression(FunctionLiteral(<<>>, BlockStatement(<<>>)), <<>>)

\* if (true) { }
IfEmpty == IfExpression(BooleanLit(TRUE), BlockStatement(<<>>), NoNode)

\* if (false) { 1 }
IfFalse ==
    IfExpression(BooleanLit(FALSE),
                 BlockStatement(<<ExpressionStatement(IntegerLiteral(1))>>), NoNode)

\* puts(s)
Puts(s) == CallExpression(Identifier("puts"), <<StringLiteral(s)>>)

\* the fixed operands come first, the integer literals 0..MaxLit last
Operands ==
    << BooleanLit(TRUE), BooleanLit(FALSE), StringLiteral("a"), StringLiteral("b"),
       Identifier("x"), TypeMismatch, NotFound, IfReturn, EmptyCall, IfEmpty,
       IfFalse, ArrayLiteral(<<IntegerLiteral(1)>>), Identifier("len"),
       StringLiteral(""), ArrayLiteral(<<>>) >> \o
    [n \in 1..(MaxLit + 1) |-> IntegerLiteral(n - 1)]

\* the position in Operands of the integer literal n
LiteralAt(n) == 15 + n + 1

\* the positions in Operands of false, of if (false) { 1 }, of "" and of []
FalseAt == 2

IfFalseAt == 11

EmptyStringAt == 14

EmptyArrayAt == 15

Operators == {"+", "-", "*", "/", "<", ">", "==", "!="}

Arguments == << IntegerLiteral(1), TypeMismatch, NotFound, Puts("arg") >>

\* fn(p1, .., pn) { puts("body"); 7 }
Params == <<"p", "q", "r", "s", "t">>

FunctionOf(n) ==
    FunctionLiteral(SubSeq(Params, 1, n),
        BlockStatement(<<ExpressionStatement(Puts("body")),
                         ExpressionStatement(IntegerLiteral(7))>>))

\* the fixed callees come first, the functions of 0..MaxArgs parameters last
Callees ==
    << Identifier("puts"), Identifier("len"), IntegerLiteral(5), NotFound, EmptyCall >> \o
    [n \in 1..(MaxArgs + 1) |-> FunctionOf(n - 1)]

\* the position in Callees of the function of n parameters
FunctionAt(n) == 5 + n + 1

Statements ==
    << ExpressionStatement(TypeMismatch), ExpressionStatement(NotFound),
       LetStatement("x", IntegerLiteral(1)), LetStatement("y", TypeMismatch),
       ExpressionStatement(IntegerLiteral(5)), ExpressionStatement(Puts("stmt")),
       ReturnStatement(IntegerLiteral(2)) >>

\* a; b  (one expression statement per expression)
InfixProgram(left, operator, right) ==
    Program(<<ExpressionStatement(InfixExpression(left, operator, right))>>)

PrefixProgram(operator, right) ==
    Program(<<ExpressionStatement(PrefixExpression(operator, right))>>)

\* callee(args); puts("next")
CallProgram(callee, args) ==
    Program(<<ExpressionStatement(CallExpression(callee, args)),
              ExpressionStatement(Puts("next"))>>)

\* return value; 9
ReturnProgram(value) ==
    Program(<<ReturnStatement(value), ExpressionStatement(IntegerLiteral(9))>>)

\* if (true) { if (true) { return value; } 8 } 9
NestedReturnProgram(value) ==
    Program(<<ExpressionStatement(
                IfExpression(BooleanLit(TRUE),
                    BlockStatement(<<
                        ExpressionStatement(
                            IfExpression(BooleanLit(TRUE),
                                BlockStatement(<<ReturnStatement(value)>>), NoNode)),
                        ExpressionStatement(IntegerLiteral(8))>>),
                    NoNode)),
              ExpressionStatement(IntegerLiteral(9))>>)

\* the operands of the return of a functionReturn program: the integer
\* literals, and if (true) { return 1 } last
ReturnOperands == [n \in 1..(MaxLit + 1) |-> IntegerLiteral(n - 1)] \o <<IfReturn>>

\* let f = fn() { if (true) { if (c) { return value; } puts("inner"); }
\*                puts("body"); 8 };
\* let g = fn() { let b = f(); puts("caller"); b + 1 };
\* let a = g(); puts("after"); a
FunctionReturnProgram(value, c) ==
    Program(<<
        LetStatement("f", FunctionLiteral(<<>>, BlockStatement(<<
            ExpressionStatement(IfExpression(BooleanLit(TRUE),
                BlockStatement(<<
                    ExpressionStatement(IfExpression(BooleanLit(c),
                        BlockStatement(<<ReturnStatement(value)>>), NoNode)),
                    ExpressionStatement(Puts("inner"))>>),
                NoNode)),
            ExpressionStatement(Puts("body")),
            ExpressionStatement(IntegerLiteral(8))>>))),
        LetStatement("g", FunctionLiteral(<<>>, BlockStatement(<<
            LetStatement("b", CallExpression(Identifier("f"), <<>>)),
            ExpressionStatement(Puts("caller")),
            ExpressionStatement(InfixExpression(Identifier("b"), "+",
                                                IntegerLiteral(1)))>>))),
        LetStatement("a", CallExpression(Identifier("g"), <<>>)),
        ExpressionStatement(Puts("after")),
        ExpressionStatement(Identifier("a"))>>)

\* let x = 1; if (c) { let x = a; let y = 2; } else { let z = 3; }
\* let f = fn() { let x = 9; let w = 4; x }; let r = f(); [x, y, r]
IfLetProgram(a, c) ==
    Program(<<
        LetStatement("x", IntegerLiteral(1)),
        ExpressionStatement(IfExpression(BooleanLit(c),
            BlockStatement(<<LetStatement("x", IntegerLiteral(a)),
                             LetStatement("y", IntegerLiteral(2))>>),
            BlockStatement(<<LetStatement("z", IntegerLiteral(3))>>))),
        LetStatement("f", FunctionLiteral(<<>>, BlockStatement(<<
            LetStatement("x", IntegerLiteral(9)),
            LetStatement("w", IntegerLiteral(4)),
            ExpressionStatement(Identifier("x"))>>))),
        LetStatement("r", CallExpression(Identifier("f"), <<>>)),
        ExpressionStatement(ArrayLiteral(<<Identifier("x"), Identifier("y"),
                                           Identifier("r")>>))>>)

\* puts("before"); let q = n / d; puts("after"); q
DivideProgram(n, d) ==
    Program(<<
        ExpressionStatement(Puts("before")),
        LetStatement("q", InfixExpression(n, "/", d)),
        ExpressionStatement(Puts("after")),
        ExpressionStatement(Identifier("q"))>>)

\* let x = 1; let x = value; x
LetProgram(value) ==
    Program(<<LetStatement("x", IntegerLiteral(1)), LetStatement("x", value),
              ExpressionStatement(Identifier("x"))>>)

\* if (condition) { 1 } else { 2 }
IfProgram(condition) ==
    Program(<<ExpressionStatement(
                IfExpression(condition,
                    BlockStatement(<<ExpressionStatement(IntegerLiteral(1))>>),
                    BlockStatement(<<ExpressionStatement(IntegerLiteral(2))>>)))>>)

\* let a = !v; let b = if (v) { 10 } else { 20 }; let c = if (v) { 10 }; [a, b, c]
TruthinessProgram(v) ==
    Program(<<
        LetStatement("a", PrefixExpression("!", v)),
        LetStatement("b", IfExpression(v,
            BlockStatement(<<ExpressionStatement(IntegerLiteral(10))>>),
            BlockStatement(<<ExpressionStatement(IntegerLiteral(20))>>))),
        LetStatement("c", IfExpression(v,
            BlockStatement(<<ExpressionStatement(IntegerLiteral(10))>>), NoNode)),
        ExpressionStatement(ArrayLiteral(<<Identifier("a"), Identifier("b"),
                                           Identifier("c")>>))>>)

\* [(a < b) == c, (a == b) != !c, if (false) { 1 } == [1][2], first([]) == last([])]
SingletonProgram(a, b, c) ==
    Program(<<ExpressionStatement(ArrayLiteral(<<
        InfixExpression(InfixExpression(IntegerLiteral(a), "<", IntegerLiteral(b)),
                        "==", BooleanLit(c)),
        InfixExpression(InfixExpression(IntegerLiteral(a), "==", IntegerLiteral(b)),
                        "!=", PrefixExpression("!", BooleanLit(c))),
        InfixExpression(IfFalse, "==",
                        IndexExpression(ArrayLiteral(<<IntegerLiteral(1)>>),
                                        IntegerLiteral(2))),
        InfixExpression(CallExpression(Identifier("first"), <<ArrayLiteral(<<>>)>>),
                        "==",
                        CallExpression(Identifier("last"), <<ArrayLiteral(<<>>)>>))
        >>))>>)

\* a pair of a hash literal
Pair(key, value) == [key |-> key, value |-> value]

\* {key: 1}
HashProgram(key) ==
    Program(<<ExpressionStatement(HashLiteral(<<Pair(key, IntegerLiteral(1))>>))>>)

\* {first: 1, second: puts("value")}
HashPairsProgram(first, second) ==
    Program(<<ExpressionStatement(
        HashLiteral(<<Pair(first, IntegerLiteral(1)), Pair(second, Puts("value"))>>))>>)

\* {1: 10, true: 20, "a": 30}[index]
HashIndexProgram(index) ==
    Program(<<ExpressionStatement(IndexExpression(
        HashLiteral(<<Pair(IntegerLiteral(1), IntegerLiteral(10)),
                      Pair(BooleanLit(TRUE), IntegerLiteral(20)),
                      Pair(StringLiteral("a"), IntegerLiteral(30))>>),
        index))>>)

\* [1, 2, .., n]
ArrayOf(n) == ArrayLiteral([k \in 1..n |-> IntegerLiteral(k)])

\* [1, 2, .., n][index]
ArrayIndexProgram(n, index) ==
    Program(<<ExpressionStatement(IndexExpression(ArrayOf(n), index))>>)

\* name(arguments)
CallOf(name, arguments) == CallExpression(Identifier(name), arguments)

\* let a = [1, .., n]; let b = push(a, x); let c = rest(a); let d = push(b, x);
\* let e = rest(b); [a, b, c, d, e, len(a)]
PushProgram(n, x) ==
    Program(<<
        LetStatement("a", ArrayOf(n)),
        LetStatement("b", CallOf("push", <<Identifier("a"), IntegerLiteral(x)>>)),
        LetStatement("c", CallOf("rest", <<Identifier("a")>>)),
        LetStatement("d", CallOf("push", <<Identifier("b"), IntegerLiteral(x)>>)),
        LetStatement("e", CallOf("rest", <<Identifier("b")>>)),
        ExpressionStatement(ArrayLiteral(<<
            Identifier("a"), Identifier("b"), Identifier("c"), Identifier("d"),
            Identifier("e"), CallOf("len", <<Identifier("a")>>)>>))>>)

\* left[index]
IndexProgram(left, index) ==
    Program(<<ExpressionStatement(IndexExpression(left, index))>>)

\* the literal n, or -n when negative is set
Signed(n, negative) ==
    IF negative THEN PrefixExpression("-", IntegerLiteral(n)) ELSE IntegerLiteral(n)

SignedValue(n, negative) == IF negative THEN 0 - n ELSE n

\* let f = fn(x) { fn(y) { x + y } }; let x = 50; let y = 60; f(a)(b)
ClosureProgram(a, b) ==
    Program(<<
        LetStatement("f",
            FunctionLiteral(<<"x">>, BlockStatement(<<ExpressionStatement(
                FunctionLiteral(<<"y">>, BlockStatement(<<ExpressionStatement(
                    InfixExpression(Identifier("x"), "+", Identifier("y")))>>)))>>))),
        LetStatement("x", IntegerLiteral(50)),
        LetStatement("y", IntegerLiteral(60)),
        ExpressionStatement(
            CallExpression(CallExpression(Identifier("f"), <<a>>), <<b>>))>>)

\* let z = a; let g = fn() { z }; let h = fn(z) { g() }; h(b)
ScopeProgram(a, b) ==
    Program(<<
        LetStatement("z", a),
        LetStatement("g", FunctionLiteral(<<>>,
            BlockStatement(<<ExpressionStatement(Identifier("z"))>>))),
        LetStatement("h", FunctionLiteral(<<"z">>,
            BlockStatement(<<ExpressionStatement(
                CallExpression(Identifier("g"), <<>>))>>))),
        ExpressionStatement(CallExpression(Identifier("h"), <<b>>))>>)

\* let f = fn(x) { if (x == 0) { 0 } else { f(x - 1) } }; f(n)
RecursionProgram(n) ==
    Program(<<
        LetStatement("f", FunctionLiteral(<<"x">>, BlockStatement(<<ExpressionStatement(
            IfExpression(InfixExpression(Identifier("x"), "==", IntegerLiteral(0)),
                BlockStatement(<<ExpressionStatement(IntegerLiteral(0))>>),
                BlockStatement(<<ExpressionStatement(
                    CallExpression(Identifier("f"),
                        <<InfixExpression(Identifier("x"), "-",
                                          IntegerLiteral(1))>>))>>)))>>))),
        ExpressionStatement(CallExpression(Identifier("f"), <<IntegerLiteral(n)>>))>>)

\* let g = fn() { w }; let w = a; g()
LateBindingProgram(a) ==
    Program(<<
        LetStatement("g", FunctionLiteral(<<>>,
            BlockStatement(<<ExpressionStatement(Identifier("w"))>>))),
        LetStatement("w", a),
        ExpressionStatement(CallExpression(Identifier("g"), <<>>))>>)

\* let x = 1; let y = 2;
\* let g = fn(x) { let y = a; let k = fn(y) { let x = 3; y }; k(x) };
\* let r = g(b); [x, y, r]
ShadowProgram(a, b) ==
    Program(<<
        LetStatement("x", IntegerLiteral(1)),
        LetStatement("y", IntegerLiteral(2)),
        LetStatement("g", FunctionLiteral(<<"x">>, BlockStatement(<<
            LetStatement("y", a),
            LetStatement("k", FunctionLiteral(<<"y">>, BlockStatement(<<
                LetStatement("x", IntegerLiteral(3)),
                ExpressionStatement(Identifier("y"))>>))),
            ExpressionStatement(CallExpression(Identifier("k"), <<Identifier("x")>>))>>))),
        LetStatement("r", CallExpression(Identifier("g"), <<b>>)),
        ExpressionStatement(ArrayLiteral(<<Identifier("x"), Identifier("y"),
                                           Identifier("r")>>))>>)

\* the environment Eval starts from: a fresh one, or one in which an earlier
\* line has bound x
InitialStores == << <<>>, [k \in {"x"} |-> Integer(7)] >>

\* testInput names the program under evaluation: the family it is generated
\* from, and the operator and the numbers (literals, positions in the pools)
\* that fill the family's holes
Input(family, operator, picks) ==
    [family |-> family, operator |-> operator, picks |-> picks]

Bit(b) == IF b THEN 1 ELSE 0

InitProgram ==
    \/ \E i, j \in 1..Len(Operands) : \E operator \in Operators :
          /\ testInput = Input("infix", operator, <<i, j>>)
          /\ program = InfixProgram(Operands[i], operator, Operands[j])
    \/ \E i \in 1..Len(Operands) : \E operator \in {"!", "-"} :
          /\ testInput = Input("prefix", operator, <<i>>)
          /\ program = PrefixProgram(operator, Operands[i])
    \/ \E i \in 1..Len(Operands) :
          \/ testInput = Input("return", "", <<i>>) /\ program = ReturnProgram(Operands[i])
          \/ /\ testInput = Input("nestedReturn", "", <<i>>)
             /\ program = NestedReturnProgram(Operands[i])
          \/ testInput = Input("let", "", <<i>>) /\ program = LetProgram(Operands[i])
          \/ testInput = Input("if", "", <<i>>) /\ program = IfProgram(Operands[i])
          \/ /\ testInput = Input("truthiness", "", <<i>>)
             /\ program = TruthinessProgram(Operands[i])
          \/ testInput = Input("hash", "", <<i>>) /\ program = HashProgram(Operands[i])
          \/ /\ testInput = Input("hashIndex", "", <<i>>)
             /\ program = HashIndexProgram(Operands[i])
          \/ /\ testInput = Input("lateBinding", "", <<i>>)
             /\ program = LateBindingProgram(Operands[i])
    \/ \E i, j \in 1..Len(Operands) :
          \/ /\ testInput = Input("index", "", <<i, j>>)
             /\ program = IndexProgram(Operands[i], Operands[j])
          \/ /\ testInput = Input("hashPairs", "", <<i, j>>)
             /\ program = HashPairsProgram(Operands[i], Operands[j])
    \/ \E c \in 1..Len(Callees) : \E n \in 0..MaxArgs :
          \E pick \in [1..n -> 1..Len(Arguments)] :
              /\ testInput = Input("call", "", <<c>> \o pick)
              /\ program = CallProgram(Callees[c], [k \in 1..n |-> Arguments[pick[k]]])
    \/ \E n \in 0..MaxStatements : \E pick \in [1..n -> 1..Len(Statements)] :
          /\ testInput = Input("statements", "", pick)
          /\ program = Program([k \in 1..n |-> Statements[pick[k]]])
    \/ \E a, b \in Literals : \E na, nb \in BOOLEAN :
          LET picks == <<a, Bit(na), b, Bit(nb)>>
          IN  \/ /\ testInput = Input("closure", "", picks)
                 /\ program = ClosureProgram(Signed(a, na), Signed(b, nb))
              \/ /\ testInput = Input("scope", "", picks)
                 /\ program = ScopeProgram(Signed(a, na), Signed(b, nb))
              \/ /\ testInput = Input("shadow", "", picks)
                 /\ program = ShadowProgram(Signed(a, na), Signed(b, nb))
    \/ \E a, b \in Literals : \E c \in BOOLEAN :
          /\ testInput = Input("singleton", "", <<a, b, Bit(c)>>)
          /\ program = SingletonProgram(a, b, c)
    \/ \E n \in 0..MaxLen : \E i \in 0..(MaxLen + 1) : \E negative \in BOOLEAN :
          /\ testInput = Input("arrayIndex", "", <<n, i, Bit(negative)>>)
          /\ program = ArrayIndexProgram(n, Signed(i, negative))
    \/ \E n \in 0..MaxLen : \E x \in Literals :
          /\ testInput = Input("push", "", <<n, x>>)
          /\ program = PushProgram(n, x)
    \/ \E n \in 0..MaxRec :
          /\ testInput = Input("recursion", "", <<n>>)
          /\ program = RecursionProgram(n)
    \/ \E a \in Literals : \E c \in BOOLEAN :
          /\ testInput = Input("ifLet", "", <<a, Bit(c)>>)
          /\ program = IfLetProgram(a, c)
    \/ \E n, d \in Literals : \E nn, nd \in BOOLEAN :
          /\ testInput = Input("divide", "", <<n, Bit(nn), d, Bit(nd)>>)
          /\ program = DivideProgram(Signed(n, nn), Signed(d, nd))
    \/ \E i \in 1..Len(ReturnOperands) : \E c \in BOOLEAN :
          /\ testInput = Input("functionReturn", "", <<i, Bit(c)>>)
          /\ program = FunctionReturnProgram(ReturnOperands[i], c)

\* the bytes of a word of the texts
Spell(word) ==
    CASE word = "let" -> <<"l", "e", "t">>
      [] word = "return" -> <<"r", "e", "t", "u", "r", "n">>
      [] word = "if" -> <<"i", "f">>
      [] word = "else" -> <<"e", "l", "s", "e">>
      [] word = "fn" -> <<"f", "n">>
      [] word = "true" -> <<"t", "r", "u", "e">>
      [] word = "==" -> <<"=", "=">>
      [] word = "!=" -> <<"!", "=">>
      [] OTHER -> <<word>>

\* the words with a space after each
RECURSIVE Source(_)
Source(words) ==
    IF Len(words) = 0 THEN <<>>
    ELSE Spell(Head(words)) \o <<" ">> \o Source(Tail(words))

\* the decimal digits of n >= 0
RECURSIVE Digits(_)
Digits(n) ==
    IF n < 10 THEN <<<<"0", "1", "2", "3", "4", "5", "6", "7", "8", "9">>[n + 1]>>
    ELSE Digits(n \div 10) \o Digits(n % 10)

\* the bytes of the strings of the programs and of their concatenations
Chars(value) ==
    CASE value = "" -> <<>>
      [] value = "a" -> <<"a">>
      [] value = "b" -> <<"b">>
      [] value = "aa" -> <<"a", "a">>
      [] value = "ab" -> <<"a", "b">>
      [] value = "ba" -> <<"b", "a">>
      [] value = "bb" -> <<"b", "b">>

\* Integer.Inspect (%d), Boolean.Inspect (%t), Null.Inspect and
\* String.Inspect, as bytes
Inspect(obj) ==
    CASE Type(obj) = "INTEGER" ->
            IF obj.value < 0 THEN <<"-">> \o Digits(0 - obj.value) ELSE Digits(obj.value)
      [] Type(obj) = "BOOLEAN" ->
            IF obj.value THEN <<"t", "r", "u", "e">> ELSE <<"f", "a", "l", "s", "e">>
      [] Type(obj) = "NULL" -> <<"n", "u", "l", "l">>
      [] Type(obj) = "STRING" -> Chars(obj.value)

\* the value that was inspected and the text Inspect gave for it
Inspected(value, text) == [value |-> value, text |-> text]

NotInspected == Inspected(Nil, <<>>)

\* no text has been parsed
NoParse ==
    [family |-> "", statements |-> <<>>, program |-> NoNode, reparsed |-> NoNode]

\* the Program and the errors of a second parse
Reparsed(again, errors) == [kind |-> "Reparsed", program |-> again, errors |-> errors]

ReparsedOf(again) == Reparsed(again.node, again.p.errors)

\* Run of the REPL: where it is in its loop (before scanner.Scan, or in
\* evaluator.Eval with the printing of the value to come, or returned), the
\* lines the scanner has yet to give, and the parser errors printed so far
Repl(at, lines, errors) == [at |-> at, lines |-> lines, errors |-> errors]

\* no REPL runs
ReplIdle == Repl("idle", <<>>, <<>>)

\* the parser is idle while the evaluator or the lexer runs
ParserIdle ==
    /\ parser = NewParser(NewLexer(<<>>))
    /\ parsed = NoParse

\* the inputs of TestEvalIntegerExpression with the values expected, and
\* three more
IntegerTests ==
    <<
       \* 5
       [input |-> <<"5">>,
        expected |-> 5],
       \* 10
       [input |-> <<"1", "0">>,
        expected |-> 10],
       \* -5
       [input |-> <<"-", "5">>,
        expected |-> 0 - 5],
       \* -10
       [input |-> <<"-", "1", "0">>,
        expected |-> 0 - 10],
       \* 5 + 5 + 5 + 5 -10
       [input |-> <<"5", " ", "+", " ", "5", " ", "+", " ", "5", " ", "+",
                    " ", "5", " ", "-", "1", "0">>,
        expected |-> 10],
       \* 2 * 2 * 2 * 2 * 2
       [input |-> <<"2", " ", "*", " ", "2", " ", "*", " ", "2", " ", "*",
                    " ", "2", " ", "*", " ", "2">>,
        expected |-> 32],
       \* 5 * 2 + 10
       [input |-> <<"5", " ", "*", " ", "2", " ", "+", " ", "1", "0">>,
        expected |-> 20],
       \* 5 + 2 * 10
       [input |-> <<"5", " ", "+", " ", "2", " ", "*", " ", "1", "0">>,
        expected |-> 25],
       \* 20 + 2 * -10
       [input |-> <<"2", "0", " ", "+", " ", "2", " ", "*", " ", "-", "1",
                    "0">>,
        expected |-> 0],
       \* 50 / 2 * 2 + 10
       [input |-> <<"5", "0", " ", "/", " ", "2", " ", "*", " ", "2", " ",
                    "+", " ", "1", "0">>,
        expected |-> 60],
       \* 2 * (5 + 10)
       [input |-> <<"2", " ", "*", " ", "(", "5", " ", "+", " ", "1", "0",
                    ")">>,
        expected |-> 30],
       \* 3 * 3 * 3 + 10
       [input |-> <<"3", " ", "*", " ", "3", " ", "*", " ", "3", " ", "+",
                    " ", "1", "0">>,
        expected |-> 37],
       \* 3 * (3 * 3) + 10
       [input |-> <<"3", " ", "*", " ", "(", "3", " ", "*", " ", "3", ")",
                    " ", "+", " ", "1", "0">>,
        expected |-> 37],
       \* (5 + 10 * 2 + 15 / 3) * 2 + -10
       [input |-> <<"(", "5", " ", "+", " ", "1", "0", " ", "*", " ", "2",
                    " ", "+", " ", "1", "5", " ", "/", " ", "3", ")", " ",
                    "*", " ", "2", " ", "+", " ", "-", "1", "0">>,
        expected |-> 50],
       \* 5 + 5 * 2
       [input |-> <<"5", " ", "+", " ", "5", " ", "*", " ", "2">>,
        expected |-> 15],
       \* 7 / 2
       [input |-> <<"7", " ", "/", " ", "2">>,
        expected |-> 3],
       \* -7 / 2
       [input |-> <<"-", "7", " ", "/", " ", "2">>,
        expected |-> 0 - 3] >>

\* the text  a operator b  with a minus sign before an operand that is
\* negative
ArithmeticText(a, na, operator, b, nb) ==
    (IF na THEN <<"-">> ELSE <<>>) \o Digits(a) \o <<" ">> \o Spell(operator)
        \o <<" ">> \o (IF nb THEN <<"-">> ELSE <<>>) \o Digits(b)

\* testEval: the program the parser makes of the input
testEval(input) == ParseProgram(NewParser(NewLexer(input))).node

\* the programs that are given as text
InitParsedProgram ==
    \/ \E a, b \in 0..MaxOperand : \E na, nb \in BOOLEAN : \E operator \in Operators :
          /\ testInput = Input("arithmetic", operator, <<a, Bit(na), b, Bit(nb)>>)
          /\ program = testEval(ArithmeticText(a, na, operator, b, nb))
    \/ \E t \in 1..Len(IntegerTests) :
          /\ testInput = Input("integerTests", "", <<t>>)
          /\ program = testEval(IntegerTests[t].input)

Init ==
    /\ InitProgram \/ InitParsedProgram
    /\ ctl = Call(program, 1)
    /\ stack = <<>>
    /\ \E s \in 1..Len(InitialStores) :
          envs = <<[NewEnvironment EXCEPT !.store = InitialStores[s]]>>
    /\ nextAddr = 1
    /\ out = <<>>
    /\ l = NewLexer(<<>>)
    /\ returned = <<>>
    /\ ParserIdle
    /\ inspected = NotInspected
    /\ repl = Repl("eval", <<>>, <<>>)

\* the program parsed from a line is evaluated in the environment of the
\* lines before it unless the parser has errors
EvaluateLine(line) ==
    /\ parser' = line.p
    /\ parsed' = [NoParse EXCEPT !.family = "inspect",
                                 !.statements = line.node.statements,
                                 !.program = line.node]
    /\ program' = line.node
    /\ ctl' = IF Len(line.p.errors) = 0 THEN Call(line.node, 1) ELSE ctl

\* the text Inspect gives for the value of the program is read as the next
\* line: lexed, parsed and, when the parser has no errors, evaluated in the
\* same environment
Reevaluate ==
    /\ Done
    /\ Type(inspected.value) = "nil"
    /\ Type(ctl.val) \in {"INTEGER", "BOOLEAN", "STRING", "NULL"}
    /\ inspected' = Inspected(ctl.val, Inspect(ctl.val))
    /\ EvaluateLine(ParseProgram(NewParser(NewLexer(Inspect(ctl.val)))))
    /\ testInput' = Input("inspect", testInput.family, <<>>)
    /\ UNCHANGED <<repl, l, returned, stack, envs, nextAddr, out>>

Next ==
    \/ EvalProgram
    \/ evalProgramLoop
    \/ EvalExpressionStatement
    \/ EvalBlockStatement
    \/ evalBlockStatementsLoop
    \/ EvalReturnStatement
    \/ ReturnStatementResume
    \/ EvalLetStatement
    \/ LetStatementResume
    \/ EvalIntegerLiteral
    \/ EvalBoolean
    \/ EvalStringLiteral
    \/ EvalIdentifier
    \/ EvalFunctionLiteral
    \/ EvalPrefixExpression
    \/ PrefixExpressionResume
    \/ EvalInfixExpression
    \/ InfixExpressionLeftResume
    \/ InfixExpressionRightResume
    \/ EvalIfExpression
    \/ evalIfExpressionResume
    \/ evalExpressionsLoop
    \/ EvalCallExpression
    \/ CallExpressionFunctionResume
    \/ CallExpressionArgumentsResume
    \/ applyFunctionsResume
    \/ EvalArrayLiteral
    \/ ArrayLiteralResume
    \/ EvalIndexExpression
    \/ IndexExpressionLeftResume
    \/ IndexExpressionIndexResume
    \/ EvalHashLiteral
    \/ evalHashLiteralKeyResume
    \/ evalHashLiteralValueResume

Spec == Init /\ [][Next]_vars

\* the evaluator followed by a second line, the text of the first value
InspectNext == Next \/ Reevaluate

InspectSpec == Init /\ [][InspectNext]_vars

(***************************************************************************)
(* The REPL: Run reads the lines of its input one by one and evaluates     *)
(* them in one environment, the environment 1 of the heap.                 *)
(***************************************************************************)
\* the lines of the sessions, as words
Lines ==
    << <<"let", "x", "=", "1", ";">>,
       <<"let", "x", "=", "x", "+", "1", ";">>,
       <<"let", "y", "=", "x", ";">>,
       <<"let", "y", "=", "2", ";", "let", "x", "5", ";">>,
       <<"x">>,
       <<"let", "x", "=", "3", ";", "return", "0", ";", "let", "y", "=", "4", ";">>,
       <<"let", "y", "=", "2", ";", "x", "+", ";">> >>

\* a session is the lines at the positions picks of Lines; the evaluator, the
\* lexer and the parser are as Run finds them
ReplInit ==
    /\ \E n \in 0..MaxLines : \E picks \in [1..n -> 1..Len(Lines)] :
          /\ testInput = Input("repl", "", picks)
          /\ repl = Repl("scan", picks, <<>>)
    /\ program = Program(<<>>)
    /\ ctl = Return(Nil)
    /\ stack = <<>>
    /\ envs = <<NewEnvironment>>
    /\ nextAddr = 1
    /\ out = <<>>
    /\ l = NewLexer(<<>>)
    /\ returned = <<>>
    /\ ParserIdle
    /\ inspected = NotInspected

\* mutant: the program of a line is evaluated whatever the parser says
ScanLine_IgnoresErrors(line) ==
    /\ parser' = line.p
    /\ program' = line.node
    /\ ctl' = Call(line.node, 1)
    /\ repl' = Repl("eval", Tail(repl.lines), repl.errors)

\* Run once p.ParseProgram() has returned: with parser errors they are
\* printed and the loop goes on, otherwise evaluator.Eval(program, env)
ScanLine(line) ==
    /\ parser' = line.p
    /\ IF Len(line.p.errors) # 0
       THEN /\ repl' = Repl("scan", Tail(repl.lines), repl.errors \o line.p.errors)
            /\ UNCHANGED <<program, ctl>>
       ELSE /\ repl' = Repl("eval", Tail(repl.lines), repl.errors)
            /\ program' = line.node
            /\ ctl' = Call(line.node, 1)

\* scanner.Scan() gives a line: lexer.New, parser.New, ParseProgram
Scan ==
    /\ repl.at = "scan"
    /\ repl.lines # <<>>
    /\ ScanLine(ParseProgram(NewParser(NewLexer(Source(Lines[Head(repl.lines)])))))
    /\ UNCHANGED <<inspected, parsed, l, returned, testInput, stack, envs, nextAddr,
                   out>>

\* evaluator.Eval has returned: evaluated.Inspect() is written unless
\* evaluated is nil, and the loop goes on
PrintEvaluated ==
    /\ repl.at = "eval"
    /\ Done
    /\ IF ctl.val = Nil THEN UNCHANGED <<ctl, out>>
       ELSE IF InspectPanics(ctl.val) THEN ctl' = Panicked /\ out' = out
       ELSE ctl' = ctl /\ out' = Append(out, ctl.val)
    /\ repl' = [repl EXCEPT !.at = "scan"]
    /\ UNCHANGED <<inspected, parser, parsed, l, returned, testInput, program, stack,
                   envs, nextAddr>>

\* scanner.Scan() is false at the end of the input: Run returns
ReplReturn ==
    /\ repl.at = "scan"
    /\ repl.lines = <<>>
    /\ repl' = [repl EXCEPT !.at = "returned"]
    /\ UNCHANGED <<inspected, parser, parsed, l, returned, testInput, program, ctl,
                   stack, envs, nextAddr, out>>

ReplNext == Next \/ Scan \/ PrintEvaluated \/ ReplReturn

\* a session of the REPL, or the evaluation of one program with its value
\* printed
ReplSpec == (Init \/ ReplInit) /\ [][ReplNext]_vars

(***************************************************************************)
(* The lexer on its own: a text of up to MaxInput bytes is given to New    *)
(* and NextToken is called again and again.                                *)
(***************************************************************************)
\* a letter, a digit, the two bytes of == and !=, a blank, a quote, the
\* byte 0 and a byte no token starts with
Bytes == {"a", "1", "=", "!", " ", "\"", NUL, "@"}

Texts(n) == UNION {[1..k -> Bytes] : k \in 0..n}

\* the evaluator is idle while the lexer runs
EvaluatorIdle ==
    /\ testInput = Input("", "", <<>>)
    /\ program = Program(<<>>)
    /\ ctl = Return(NULL)
    /\ stack = <<>>
    /\ envs = <<NewEnvironment>>
    /\ nextAddr = 1
    /\ out = <<>>
    /\ inspected = NotInspected
    /\ repl = ReplIdle

LexInit ==
    /\ \E input \in Texts(MaxInput) : l = NewLexer(input)
    /\ returned = <<>>
    /\ EvaluatorIdle
    /\ ParserIdle

\* the calls go on for a few tokens beyond the end of the text
CallNextToken ==
    /\ Len(returned) < Len(l.input) + 3
    /\ l' = NextToken(l).l
    /\ returned' = Append(returned, NextToken(l).tok)
    /\ UNCHANGED <<repl, inspected, parser, parsed, testInput, program, ctl, stack, envs, nextAddr, out>>

LexNext == CallNextToken

LexSpec == LexInit /\ [][LexNext]_vars

(***************************************************************************)
(* The parser on its own: ParseProgram on the texts below, one statement   *)
(* of its loop at a time.                                                  *)
(***************************************************************************)
MaxOperators == 3

MaxTemplates == 2

InfixOperators == {"==", "!=", "<", ">", "+", "-", "*", "/"}

OperandNames == <<"a", "b", "c", "d", "e", "f">>

\* operand (operator operand)* over the operators ops
RECURSIVE Chain(_, _)
Chain(ops, i) ==
    IF i > Len(ops) THEN <<>>
    ELSE <<ops[i], OperandNames[i + 1]>> \o Chain(ops, i + 1)

\* an expression with no parentheses but those of a call: an optional prefix
\* operator, an operand that may be called, a chain of infix operators and an
\* optional ';' with a statement after it
ExpressionTexts ==
    {prefix \o <<"a">> \o call \o Chain(ops, 1) \o ending :
        prefix \in {<<>>, <<"-">>, <<"!">>},
        call \in {<<>>, <<"(", "x", ")">>},
        ops \in UNION {[1..k -> InfixOperators] : k \in 0..MaxOperators},
        ending \in {<<>>, <<";", "-", "z">>}}

Templates ==
    << <<"let", "a", "=", "1", ";">>,
       <<"return", "a", ";">>,
       <<"(", "a", "+", "1", ")", "*", "2", ";">>,
       <<"if", "(", "a", ")", "{", "1", "}", "else", "{", "2", "}">>,
       <<"if", "(", "a", "<", "1", ")", "{", "a", "}">>,
       <<"fn", "(", "a", ",", "b", ")", "{", "a", "}">>,
       <<"a", "(", "1", ",", "2", ")">>,
       <<"!", "true">> >>

RECURSIVE Flatten(_)
Flatten(seqs) == IF Len(seqs) = 0 THEN <<>> ELSE Head(seqs) \o Flatten(Tail(seqs))

\* the programs of one to MaxTemplates statements
TemplatePrograms ==
    {Flatten([i \in DOMAIN pick |-> Templates[pick[i]]]) :
        pick \in UNION {[1..k -> 1..Len(Templates)] : k \in 1..MaxTemplates}}

\* words without the word at position i; words itself when i is 0
Without(words, i) ==
    IF i = 0 THEN words ELSE SubSeq(words, 1, i - 1) \o SubSeq(words, i + 1, Len(words))

\* the programs with at most one word left out
TemplateTexts ==
    UNION {{Without(words, i) : i \in 0..Len(words)} : words \in TemplatePrograms}

\* the statements with one word replaced by a quote, which opens a string
\* that nothing closes, or by the byte 0
BrokenTexts ==
    UNION {{[Templates[t] EXCEPT ![i] = word] :
                i \in 1..Len(Templates[t]), word \in {"\"", NUL}} :
           t \in 1..Len(Templates)}

\* the words that stand in the parameter positions of a function literal
ParameterWords == {"x", "y", "1", "2", "true", "+"}

\* fn(<list>) {} with a list of no word, one word, one word and a comma, or
\* two words with a comma between them
ParameterTexts ==
    {<<"fn", "(">> \o list \o <<")", "{", "}">> :
        list \in {<<>>} \cup {<<a>> : a \in ParameterWords}
                       \cup {<<a, ",">> : a \in ParameterWords}
                       \cup {<<a, ",", b>> : a \in ParameterWords, b \in ParameterWords}}

ParseInit ==
    /\ \E family \in {"expression", "templates", "broken", "parameters"} :
          \E words \in IF family = "expression" THEN ExpressionTexts
                        ELSE IF family = "templates" THEN TemplateTexts
                        ELSE IF family = "broken" THEN BrokenTexts
                        ELSE ParameterTexts :
             /\ parser = NewParser(NewLexer(Source(words)))
             /\ parsed = [NoParse EXCEPT !.family = family]
    /\ l = NewLexer(<<>>)
    /\ returned = <<>>
    /\ EvaluatorIdle

\* a turn of the loop that leaves out p.nextToken()
AppendStatement_NoNextToken(statement) ==
    /\ parser' = Turn(parser, statement.p)
    /\ parsed' = [parsed EXCEPT !.statements =
                     IF statement.node # NoNode THEN Append(@, statement.node)
                     ELSE @]

\* the statement is appended unless it is nil, and p.nextToken()
AppendStatement(statement) ==
    /\ parser' = Turn(parser, nextToken(statement.p))
    /\ parsed' = [parsed EXCEPT !.statements =
                     IF statement.node # NoNode THEN Append(@, statement.node)
                     ELSE @]

\* one turn of the loop of ParseProgram
ParseProgramStatement ==
    /\ parsed.program = NoNode
    /\ parser.currentToken.type # "EOF"
    /\ AppendStatement(parseStatement(parser))
    /\ UNCHANGED <<repl, inspected, l, returned, testInput, program, ctl, stack, envs,
                   nextAddr, out>>

\* the loop of ParseProgram ends at EOF
ParseProgramReturn ==
    /\ parsed.program = NoNode
    /\ parser.currentToken.type = "EOF"
    /\ parsed' = [parsed EXCEPT !.program = Program(parsed.statements)]
    /\ UNCHANGED <<repl, inspected, parser, l, returned, testInput, program, ctl, stack,
                   envs, nextAddr, out>>

\* the text Program.String() gives for a program parsed without errors is
\* parsed in its turn: New(lexer.New(program.String())).ParseProgram()
Reparse ==
    /\ parsed.program # NoNode
    /\ parsed.reparsed = NoNode
    /\ parser.errors = <<>>
    /\ parsed' = [parsed EXCEPT !.reparsed =
                     ReparsedOf(ParseProgram(NewParser(NewLexer(
                                    StringOf(parsed.program)))))]
    /\ UNCHANGED <<repl, inspected, parser, l, returned, testInput, program, ctl, stack,
                   envs, nextAddr, out>>

ParseNext == ParseProgramStatement \/ ParseProgramReturn \/ Reparse

ParseSpec == ParseInit /\ [][ParseNext]_vars

(***************************************************************************)
(* Properties.                                                             *)
(***************************************************************************)
SameValue(v, w) == Type(v) = Type(w) /\ v = w

SameStore(s, t) ==
    /\ DOMAIN s = DOMAIN t
    /\ \A k \in DOMAIN s : SameValue(s[k], t[k])

SameEnvironment(a, b) == a.outer = b.outer /\ SameStore(a.store, b.store)

\* every environment of the heap before is the same in the heap after
Preserved(before, after) ==
    /\ Len(before) <= Len(after)
    /\ \A e \in 1..Len(before) : SameEnvironment(before[e], after[e])

Bound(e) == {envs[e].store[k] : k \in DOMAIN envs[e].store}

Family(name) == testInput.family = name

Pick(i) == testInput.picks[i]

\* the integer the holes i, i+1 of a closure, scope or shadow program stand for
SignedPick(i) == SignedValue(Pick(i), Pick(i + 1) = 1)

Min(S) == CHOOSE i \in S : \A j \in S : i <= j

HasMessage(obj, message) == isError(obj) /\ obj.message = message

\* C1: the value Eval returns for the Program node is never a ReturnValue
\* wrapper, whatever the operand of the return statement that was executed
C1_ProgramResultIsUnwrapped == Done => Type(ctl.val) # "RETURN_VALUE"

\* C2: no ReturnValue is bound to a name in any environment, and none is an
\* operand of an infix or index expression, an argument or an array element
C2_ReturnValueNeverObserved ==
    /\ \A e \in 1..Len(envs) : \A k \in DOMAIN envs[e].store :
          Type(envs[e].store[k]) # "RETURN_VALUE"
    /\ \A i \in 1..Len(stack) :
          /\ stack[i].at \in {"InfixExpression.Right", "IndexExpression.Index"}
                => Type(stack[i].left) # "RETURN_VALUE"
          /\ stack[i].at = "evalExpressions"
                => \A j \in 1..Len(stack[i].evaluated) :
                      Type(stack[i].evaluated[j]) # "RETURN_VALUE"
    /\ (ctl.mode = "ret" /\ stack # <<>>
          /\ Top.at \in {"PrefixExpression", "InfixExpression.Left",
                         "InfixExpression.Right", "IndexExpression.Left",
                         "IndexExpression.Index", "evalExpressions"})
          => Type(ctl.val) # "RETURN_VALUE"

\* C3: no Error is ever bound in an environment; a let whose value is an
\* Error returns that Error and leaves every environment as it was; a call
\* with an Error among its evaluated arguments returns it without binding a
\* parameter, running a body or printing
C3_ErrorNeverBound ==
    /\ [](\A e \in 1..Len(envs) : \A k \in DOMAIN envs[e].store :
             Type(envs[e].store[k]) # "ERROR")
    /\ [][(Resuming("LetStatement") /\ isError(ctl.val))
            => /\ Preserved(envs, envs') /\ Len(envs') = Len(envs)
               /\ ctl'.mode = "ret" /\ SameValue(ctl'.val, ctl.val)]_vars
    /\ [][(ResumingList("CallExpression.Arguments")
             /\ \E i \in 1..Len(ctl.list) : isError(ctl.list[i]))
            => /\ Preserved(envs, envs') /\ Len(envs') = Len(envs)
               /\ ctl'.mode = "ret" /\ isError(ctl'.val)
               /\ Len(stack') = Len(stack) - 1
               /\ Len(out') = Len(out)]_vars

\* let x = 1; let x = 1 + true; x  has ended in the Error and x is still 1
C3_Witness ==
    /\ Family("let") /\ Pick(1) = 6 /\ Done
    /\ HasMessage(ctl.val, "type mismatch: INTEGER + BOOLEAN")
    /\ "x" \in DOMAIN envs[1].store
    /\ SameValue(envs[1].store["x"], Integer(1))

\* C4: the body of a called function runs in a new environment whose parent
\* is the environment the function literal was evaluated in: f(a)(b) yields
\* a + b for let f = fn(x) { fn(y) { x + y } }, and a free identifier resolves
\* to the definition-site binding although the call site binds it differently
C4_ClosureCapturesDefinitionEnv ==
    /\ \A i \in 1..Len(stack) :
          stack[i].at = "applyFunctions"
             => /\ envs[stack[i].extendedEnv].outer = stack[i].function.env
                /\ stack[i].extendedEnv > Len(stack[i].envsAtCall)
    /\ (Done /\ Family("closure"))
          => SameValue(ctl.val, Integer(SignedPick(1) + SignedPick(3)))
    /\ (Done /\ Family("scope")) => SameValue(ctl.val, Integer(SignedPick(1)))

\* f(-1)(2) has returned 1 where the call site binds x to 50 and y to 60
C4_Witness ==
    /\ Family("closure") /\ testInput.picks = <<1, 1, 2, 0>> /\ Done
    /\ SameValue(ctl.val, Integer(1))
    /\ SameValue(envs[1].store["x"], Integer(50))

\* C5: Set changes only the store of the environment it is called on: a
\* step changes at most the environment of the let being executed, every
\* environment that exists when a function is called is the same throughout
\* the call and at its return, and Get returns the innermost binding
C5_SetWritesInnermostOnly ==
    /\ [](\A i \in 1..Len(stack) :
             stack[i].at = "applyFunctions" => Preserved(stack[i].envsAtCall, envs))
    /\ [][\A e \in 1..Len(envs) :
             SameEnvironment(envs[e], envs'[e])
             \/ (Resuming("LetStatement") /\ e = Top.env)]_vars
    /\ [][(Calling("Identifier") /\ ctl.node.value \in DOMAIN envs[ctl.env].store)
            => SameValue(ctl'.val, envs[ctl.env].store[ctl.node.value])]_vars
    /\ []((Done /\ Family("shadow"))
            => /\ Type(ctl.val) = "ARRAY"
               /\ Len(ctl.val.elements) = 3
               /\ SameValue(ctl.val.elements[1], Integer(1))
               /\ SameValue(ctl.val.elements[2], Integer(2))
               /\ SameValue(ctl.val.elements[3], Integer(SignedPick(3))))

\* the call g(2) is returning 2 from the innermost y, after g has let y = -1
\* and k has let x = 3, while the caller's x and y are 1 and 2
C5_Witness ==
    /\ Family("shadow") /\ testInput.picks = <<1, 1, 2, 0>>
    /\ Resuming("applyFunctions") /\ Len(stack) = 3 /\ Len(envs) = 3
    /\ SameValue(ctl.val, Integer(2))
    /\ SameValue(envs[2].store["y"], Integer(0 - 1))
    /\ SameValue(envs[3].store["x"], Integer(3))
    /\ SameValue(envs[1].store["x"], Integer(1))
    /\ SameValue(envs[1].store["y"], Integer(2))

\* C6: a Function shares its defining environment: evaluating a function
\* literal changes no environment and the function refers to the current
\* one, so a name bound there after the definition is visible to the body
\* and  let f = fn(x) { if (x == 0) { 0 } else { f(x - 1) } }; f(n)  yields 0
C6_FunctionSharesDefiningEnv ==
    /\ [][Calling("FunctionLiteral")
            => /\ ctl'.mode = "ret" /\ Type(ctl'.val) = "FUNCTION_OBJECT"
               /\ ctl'.val.env = ctl.env
               /\ Len(envs') = Len(envs) /\ Preserved(envs, envs')]_vars
    /\ []((Done /\ Family("recursion")) => SameValue(ctl.val, Integer(0)))
    /\ []((Done /\ Family("lateBinding") /\ Pick(1) >= LiteralAt(0))
            => SameValue(ctl.val, Integer(Pick(1) - LiteralAt(0))))

\* f(MaxRec) has returned 0 through MaxRec calls of f by name
C6_Witness ==
    /\ Family("recursion") /\ Pick(1) = MaxRec /\ Done
    /\ SameValue(ctl.val, Integer(0))
    /\ Len(envs) = MaxRec + 2

\* the statements of the pool that end a program: an Error (1, 2, 4) or a
\* return (7)
FirstStop(picks) ==
    IF \E i \in 1..Len(picks) : picks[i] \in {1, 2, 4, 7}
    THEN Min({i \in 1..Len(picks) : picks[i] \in {1, 2, 4, 7}})
    ELSE 0

\* C7: evalProgram returns the Error of the first statement that yields one
\* at once: nothing is evaluated after it, so no later let binds and no
\* later puts prints, and the returned Error is that statement's
C7_ProgramStopsAtFirstError ==
    /\ [][(Resuming("evalProgram") /\ isError(ctl.val))
            => /\ ctl'.mode = "ret" /\ SameValue(ctl'.val, ctl.val)
               /\ stack' = <<>>
               /\ Len(envs') = Len(envs) /\ Preserved(envs, envs')
               /\ Len(out') = Len(out)]_vars
    /\ [][~Done]_vars
    /\ []((Done /\ Family("statements"))
            => LET picks == testInput.picks
                   k == FirstStop(picks)
               IN  (k # 0 /\ picks[k] # 7)
                     => /\ HasMessage(ctl.val,
                              IF picks[k] = 2 THEN "identifier not found: nope"
                              ELSE "type mismatch: INTEGER + BOOLEAN")
                        /\ Len(out) = Cardinality({i \in 1..(k - 1) : picks[i] = 6})
                        /\ "y" \notin DOMAIN envs[1].store
                        /\ "x" \in DOMAIN envs[1].store
                              => SameValue(envs[1].store["x"],
                                    IF \E i \in 1..(k - 1) : picks[i] = 3
                                    THEN Integer(1) ELSE Integer(7)))

\* 1 + true; let x = 1; 5  has ended in the Error of its first statement in
\* a fresh environment, and x is not bound
C7_Witness ==
    /\ Family("statements") /\ testInput.picks = <<1, 3, 5>> /\ Done
    /\ HasMessage(ctl.val, "type mismatch: INTEGER + BOOLEAN")
    /\ DOMAIN envs[1].store = {}

\* the first argument of the call that yields an Error (2, 3 in the pool)
FirstError(args) ==
    IF \E i \in 1..Len(args) : args[i] \in {2, 3}
    THEN Min({i \in 1..Len(args) : args[i] \in {2, 3}})
    ELSE 0

\* C8: in a call the callee is evaluated first and the arguments then left
\* to right; at the first Error no later argument is evaluated, the callee
\* is not applied and the Error is the value of the call
C8_CallStopsAtFirstError ==
    /\ [][(Resuming("CallExpression.Function") /\ isError(ctl.val))
            => /\ ctl'.mode = "ret" /\ SameValue(ctl'.val, ctl.val)
               /\ Len(stack') = Len(stack) - 1]_vars
    /\ [][(Resuming("evalExpressions") /\ isError(ctl.val))
            => /\ ctl'.mode = "retList" /\ Len(ctl'.list) = 1
               /\ SameValue(ctl'.list[1], ctl.val)
               /\ Len(stack') = Len(stack) - 1]_vars
    /\ [][(ResumingList("CallExpression.Arguments")
             /\ \E i \in 1..Len(ctl.list) : isError(ctl.list[i]))
            => /\ ctl'.mode = "ret" /\ SameValue(ctl'.val, ctl.list[1])
               /\ Len(stack') = Len(stack) - 1
               /\ Len(envs') = Len(envs) /\ Len(out') = Len(out)]_vars
    /\ [](Family("call")
            => LET callee == Pick(1)
                   args == Tail(testInput.picks)
                   k == FirstError(args)
               IN  /\ callee = 4
                        => /\ out = <<>>
                           /\ Done => HasMessage(ctl.val, "identifier not found: nope")
                   /\ (callee # 4 /\ k # 0)
                        => /\ Len(out) <= Cardinality({i \in 1..(k - 1) : args[i] = 4})
                           /\ \A i \in 1..Len(out) :
                                 Type(out[i]) = "STRING" /\ out[i].value = "arg"
                           /\ callee # 5 => Len(envs) = 1
                           /\ Done
                                => /\ HasMessage(ctl.val,
                                         IF args[k] = 3 THEN "identifier not found: nope"
                                         ELSE "type mismatch: INTEGER + BOOLEAN")
                                   /\ Len(out) = Cardinality({i \in 1..(k - 1) :
                                                                 args[i] = 4}))

\* fn(p, q, r) { puts("body"); 7 }(puts("arg"), 1 + true, puts("arg")) has
\* ended in the Error of its second argument having printed "arg" once
C8_Witness ==
    /\ Family("call") /\ testInput.picks = <<FunctionAt(3), 4, 2, 4>> /\ Done
    /\ HasMessage(ctl.val, "type mismatch: INTEGER + BOOLEAN")
    /\ Len(out) = 1 /\ out[1].value = "arg"

\* C9: the evaluation of an expression never returns nil to the statement,
\* operator, call or index expression that uses its value
C9_ExpressionValueNeverNil ==
    (ctl.mode = "ret" /\ stack # <<>>
       /\ Top.at \in {"ReturnStatement", "LetStatement", "PrefixExpression",
                      "InfixExpression.Left", "InfixExpression.Right",
                      "evalIfExpression", "evalExpressions",
                      "CallExpression.Function", "IndexExpression.Left",
                      "IndexExpression.Index"})
       => ctl.val # Nil

\* C10: for two String operands + concatenates and every other operator,
\* == and != included, yields Error "unknown operation: STRING <op> STRING"
C10_StringOperators ==
    (Done /\ Family("infix") /\ Pick(1) \in {3, 4} /\ Pick(2) \in {3, 4})
       => IF testInput.operator = "+"
          THEN /\ Type(ctl.val) = "STRING"
               /\ ctl.val.value = Operands[Pick(1)].value \o Operands[Pick(2)].value
          ELSE HasMessage(ctl.val, "unknown operation: STRING " \o testInput.operator
                                   \o " STRING")

\* v is the FALSE or the NULL object
Falsey(v) == Is(v, FALSEObj) \/ Is(v, NULL)

\* C11: ! and the if condition agree on every value that is not an Error:
\* !v is TRUE exactly when v is FALSE or NULL, and if (v) takes its
\* consequence exactly when v is neither (else the alternative, or NULL when
\* there is none); 0, "" and [] are truthy
C11_SameTruthiness ==
    /\ [][(Resuming("PrefixExpression") /\ Top.operator = "!" /\ ~isError(ctl.val))
            => /\ ctl'.mode = "ret"
               /\ Is(ctl'.val, nativeBooleanToBooleanObject(Falsey(ctl.val)))]_vars
    /\ [][(Resuming("evalIfExpression") /\ ~isError(ctl.val))
            => IF ~Falsey(ctl.val)
               THEN ctl'.mode = "eval" /\ ctl'.node = Top.node.consequence
               ELSE IF Top.node.alternative # NoNode
                    THEN ctl'.mode = "eval" /\ ctl'.node = Top.node.alternative
                    ELSE ctl'.mode = "ret" /\ Is(ctl'.val, NULL)]_vars
    /\ []((Done /\ Family("truthiness") /\ Type(ctl.val) = "ARRAY")
            => LET a == ctl.val.elements[1]
                   b == ctl.val.elements[2]
                   c == ctl.val.elements[3]
               IN  /\ Is(a, TRUEObj) \/ Is(a, FALSEObj)
                   /\ Is(a, TRUEObj) => SameValue(b, Integer(20)) /\ Is(c, NULL)
                   /\ Is(a, FALSEObj)
                         => SameValue(b, Integer(10)) /\ SameValue(c, Integer(10))
                   /\ Pick(1) \in {LiteralAt(0), EmptyStringAt, EmptyArrayAt}
                         => Is(a, FALSEObj)
                   /\ Pick(1) \in {FalseAt, IfFalseAt} => Is(a, TRUEObj))
    /\ []((Done /\ Family("truthiness")
              /\ Pick(1) \in {LiteralAt(0), EmptyStringAt, EmptyArrayAt, FalseAt, IfFalseAt})
            => Type(ctl.val) = "ARRAY")

\* !0 is false and if (0) has taken its consequence, with and without an else
C11_Witness ==
    /\ Family("truthiness") /\ Pick(1) = LiteralAt(0) /\ Done
    /\ Type(ctl.val) = "ARRAY"
    /\ Is(ctl.val.elements[1], FALSEObj)
    /\ SameValue(ctl.val.elements[2], Integer(10))
    /\ SameValue(ctl.val.elements[3], Integer(10))

\* the objects reachable from obj, in a sequence: obj itself, the elements of
\* an array, the value of a ReturnValue
RECURSIVE Inside(_), InsideAll(_)
Inside(obj) ==
    IF obj = Nil THEN <<>>
    ELSE IF Type(obj) = "ARRAY" THEN <<obj>> \o InsideAll(obj.elements)
    ELSE IF Type(obj) = "RETURN_VALUE" THEN <<obj>> \o Inside(obj.value)
    ELSE IF Type(obj) = "HASH"
         THEN <<obj>> \o InsideAll([i \in 1..Len(obj.pairs) |-> obj.pairs[i].key])
                      \o InsideAll([i \in 1..Len(obj.pairs) |-> obj.pairs[i].value])
    ELSE <<obj>>

InsideAll(list) ==
    IF Len(list) = 0 THEN <<>> ELSE Inside(Head(list)) \o InsideAll(Tail(list))

\* the objects held by the frame f of the stack
HeldBy(f) ==
    IF f.at \in {"InfixExpression.Right", "IndexExpression.Index"} THEN Inside(f.left)
    ELSE IF f.at = "evalExpressions" THEN InsideAll(f.evaluated)
    ELSE IF f.at = "evalHashLiteral.Key" THEN Inside(Hash(f.pairs, 0))
    ELSE IF f.at = "evalHashLiteral.Value"
         THEN Inside(f.key) \o Inside(Hash(f.pairs, 0))
    ELSE <<>>

RECURSIVE HeldFrom(_)
HeldFrom(i) == IF i > Len(stack) THEN <<>> ELSE HeldBy(stack[i]) \o HeldFrom(i + 1)

RECURSIVE BoundIn(_, _)
BoundIn(store, keys) ==
    IF keys = {} THEN <<>>
    ELSE LET k == CHOOSE key \in keys : TRUE
         IN  Inside(store[k]) \o BoundIn(store, keys \ {k})

RECURSIVE BoundFrom(_)
BoundFrom(e) ==
    IF e > Len(envs) THEN <<>>
    ELSE BoundIn(envs[e].store, DOMAIN envs[e].store) \o BoundFrom(e + 1)

\* every object the evaluation holds: the value being returned, the operands
\* and arguments waiting on the stack, the bindings of every environment and
\* the printed objects
Objects ==
    (IF ctl.mode = "ret" THEN Inside(ctl.val)
     ELSE IF ctl.mode = "retList" THEN InsideAll(ctl.list)
     ELSE <<>>)
    \o HeldFrom(1) \o BoundFrom(1) \o InsideAll(out)

\* the positions in Objects of the objects of a type
OfType(type) == {i \in 1..Len(Objects) : Type(Objects[i]) = type}

\* C12: every Boolean the evaluation holds is the TRUE or the FALSE object and
\* every Null is the NULL object, so two booleans (two nulls) are the same
\* object exactly when they have the same value, and == / != on them answer
\* by value
C12_SharedBooleansAndNull ==
    /\ \A i \in OfType("BOOLEAN") : Is(Objects[i], TRUEObj) \/ Is(Objects[i], FALSEObj)
    /\ \A i \in OfType("NULL") : Is(Objects[i], NULL)
    /\ \A i, j \in OfType("BOOLEAN") :
          SameObject(Objects[i], Objects[j]) <=> (Objects[i].value = Objects[j].value)
    /\ \A i, j \in OfType("NULL") : SameObject(Objects[i], Objects[j])
    /\ (Done /\ Family("singleton"))
          => /\ Type(ctl.val) = "ARRAY"
             /\ Is(ctl.val.elements[1],
                   nativeBooleanToBooleanObject((Pick(1) < Pick(2)) = (Pick(3) = 1)))
             /\ Is(ctl.val.elements[2],
                   nativeBooleanToBooleanObject((Pick(1) = Pick(2)) # (Pick(3) # 1)))
             /\ Is(ctl.val.elements[3], TRUEObj)
             /\ Is(ctl.val.elements[4], TRUEObj)

\* (0 < 1) == true is true, (0 == 1) != !true is false, and the nulls of an
\* if without else, of an index out of range, of first([]) and of last([])
\* have been compared and found the same
C12_Witness ==
    /\ Family("singleton") /\ testInput.picks = <<0, 1, 1>> /\ Done
    /\ Type(ctl.val) = "ARRAY"
    /\ Is(ctl.val.elements[1], TRUEObj)
    /\ Is(ctl.val.elements[2], FALSEObj)
    /\ Is(ctl.val.elements[3], TRUEObj)
    /\ Is(ctl.val.elements[4], TRUEObj)

\* the positions in Operands of [1] and of len
ArrayAt == 12

BuiltinAt == 13

\* C13: a hash literal whose key evaluates to an Array, a Builtin or Null
\* yields the Error "unusable as hash key: <TYPE>" and no Hash, and it is the
\* message a lookup with such an index in a Hash yields
C13_UnusableAsHashKey ==
    /\ (Done /\ (Family("hash") \/ Family("hashIndex")))
          => /\ Pick(1) \in {ArrayAt, EmptyArrayAt}
                   => HasMessage(ctl.val, "unusable as hash key: ARRAY")
             /\ Pick(1) = BuiltinAt
                   => HasMessage(ctl.val, "unusable as hash key: BUILTIN")
             /\ Pick(1) = IfFalseAt
                   => HasMessage(ctl.val, "unusable as hash key: NULL")
    /\ (Done /\ Family("hashPairs")
          /\ {Pick(1), Pick(2)} \subseteq {ArrayAt, EmptyArrayAt})
          => HasMessage(ctl.val, "unusable as hash key: ARRAY")

\* C14: [1, .., n][i] is the element at position i when 0 <= i < n and the
\* NULL object otherwise; indexing an Array with an Integer never yields an
\* Error and never panics
C14_ArrayIndexInRangeOrNull ==
    /\ [][(/\ Resuming("IndexExpression.Index")
           /\ Top.left # Nil /\ Type(Top.left) = "ARRAY"
           /\ ctl.val # Nil /\ Type(ctl.val) = "INTEGER")
            => /\ ctl'.mode = "ret"
               /\ IF 0 <= ctl.val.value /\ ctl.val.value < Len(Top.left.elements)
                  THEN LET element == Top.left.elements[ctl.val.value + 1]
                       IN  IF element = Nil THEN ctl'.val = Nil
                           ELSE ctl'.val # Nil /\ SameValue(ctl'.val, element)
                  ELSE Is(ctl'.val, NULL)]_vars
    /\ [](Family("arrayIndex")
            => /\ ctl.mode # "panic"
               /\ Done => IF 0 <= SignedPick(2) /\ SignedPick(2) < Pick(1)
                           THEN SameValue(ctl.val, Integer(SignedPick(2) + 1))
                           ELSE Is(ctl.val, NULL))

\* [1, 2, 3][2] is 3
C14_Witness ==
    /\ Family("arrayIndex") /\ testInput.picks = <<3, 2, 0>> /\ Done
    /\ SameValue(ctl.val, Integer(3))

\* [1, 2, 3][3], [1, 2, 3][-1] and [][0] are NULL
C14_WitnessOutOfRange ==
    /\ Family("arrayIndex") /\ Done /\ Is(ctl.val, NULL)
    /\ testInput.picks \in {<<3, 3, 0>>, <<3, 1, 1>>, <<0, 0, 0>>}

\* obj is an Array whose elements are the Integers of values
IsArrayOf(obj, values) ==
    /\ obj # Nil /\ Type(obj) = "ARRAY"
    /\ Len(obj.elements) = Len(values)
    /\ \A i \in 1..Len(values) : SameValue(obj.elements[i], Integer(values[i]))

\* the integers 1, .., n
UpTo(n) == [k \in 1..n |-> k]

\* C15: push(arr, x) is a new Array, the elements of arr followed by x, and
\* neither push nor rest changes the array it is given: an Array object has
\* the same elements wherever it is held, and after let b = push(a, x),
\* rest(a), push(b, x) and rest(b) the name a still denotes [1, .., n]
C15_PushLeavesArrayUnchanged ==
    /\ \A i, j \in OfType("ARRAY") :
          Objects[i].addr = Objects[j].addr
             => /\ Len(Objects[i].elements) = Len(Objects[j].elements)
                /\ \A k \in 1..Len(Objects[i].elements) :
                      /\ (Objects[i].elements[k] = Nil) = (Objects[j].elements[k] = Nil)
                      /\ Objects[i].elements[k] # Nil
                            => SameValue(Objects[i].elements[k], Objects[j].elements[k])
    /\ (Family("push") /\ "b" \in DOMAIN envs[1].store)
          => /\ IsArrayOf(envs[1].store["a"], UpTo(Pick(1)))
             /\ IsArrayOf(envs[1].store["b"], Append(UpTo(Pick(1)), Pick(2)))
             /\ envs[1].store["a"].addr # envs[1].store["b"].addr
    /\ (Family("push") /\ Done)
          => /\ Type(ctl.val) = "ARRAY"
             /\ IsArrayOf(ctl.val.elements[1], UpTo(Pick(1)))
             /\ IsArrayOf(ctl.val.elements[2], Append(UpTo(Pick(1)), Pick(2)))
             /\ IF Pick(1) = 0 THEN Is(ctl.val.elements[3], NULL)
                ELSE IsArrayOf(ctl.val.elements[3], Tail(UpTo(Pick(1))))
             /\ IsArrayOf(ctl.val.elements[4],
                          Append(Append(UpTo(Pick(1)), Pick(2)), Pick(2)))
             /\ IsArrayOf(ctl.val.elements[5], Tail(Append(UpTo(Pick(1)), Pick(2))))
             /\ SameValue(ctl.val.elements[6], Integer(Pick(1)))

\* let a = [1, 2, 3]; push(a, 0) .. ; len(a) is 3 and a is [1, 2, 3]
C15_Witness ==
    /\ Family("push") /\ testInput.picks = <<3, 0>> /\ Done
    /\ IsArrayOf(envs[1].store["a"], <<1, 2, 3>>)
    /\ IsArrayOf(envs[1].store["d"], <<1, 2, 3, 0, 0>>)
    /\ SameValue(ctl.val.elements[6], Integer(3))

\* C18: NextToken returns an EOF token only when every byte of the input has
\* been read, and after an EOF token every later token is an EOF token
C18_EOFOnlyAtEndAndForever ==
    /\ [][CallNextToken =>
            (NextToken(l).tok.type = "EOF"
                => skipWhitespace(l).position >= Len(l.input))]_vars
    /\ [](\A i, j \in 1..Len(returned) :
             (i < j /\ returned[i].type = "EOF") => returned[j].type = "EOF")

\* the literals of the tokens NextToken returns before EOF
RECURSIVE TokensOf(_)
TokensOf(lx) ==
    IF NextToken(lx).tok.type = "EOF" THEN <<>>
    ELSE <<Concat(NextToken(lx).tok.literal)>> \o TokensOf(NextToken(lx).l)

\* the runs of tokens between the ';' tokens, with done the runs before
\* and run the run so far
RECURSIVE Segments(_, _, _)
Segments(tokens, done, run) ==
    IF Len(tokens) = 0 THEN (IF Len(run) = 0 THEN done ELSE Append(done, run))
    ELSE IF Head(tokens) = ";"
         THEN Segments(Tail(tokens), IF Len(run) = 0 THEN done ELSE Append(done, run),
                       <<>>)
    ELSE Segments(Tail(tokens), done, Append(run, Head(tokens)))

\* the tokens of the text a node was built from, read off the tree from left
\* to right
RECURSIVE Yield(_), YieldAll(_)
Yield(node) ==
    CASE node.kind \in {"Identifier", "IntegerLiteral", "Boolean"} ->
            <<Concat(node.token.literal)>>
      [] node.kind = "PrefixExpression" -> <<node.operator>> \o Yield(node.right)
      [] node.kind = "InfixExpression" ->
            Yield(node.left) \o <<node.operator>> \o Yield(node.right)
      [] node.kind = "CallExpression" ->
            Yield(node.function) \o <<"(">> \o YieldAll(node.arguments) \o <<")">>
      [] node.kind = "ExpressionStatement" -> Yield(node.value)
      [] OTHER -> <<>>

YieldAll(nodes) ==
    IF Len(nodes) = 0 THEN <<>>
    ELSE IF Len(nodes) = 1 THEN Yield(nodes[1])
    ELSE Yield(Head(nodes)) \o <<",">> \o YieldAll(Tail(nodes))

\* how tightly the operator at the top of a tree binds; an operand binds
\* tighter than any operator
Binds(node) ==
    CASE node.kind = "InfixExpression" -> precedences[node.operator]
      [] node.kind = "PrefixExpression" -> PREFIX
      [] node.kind = "CallExpression" -> CALL
      [] OTHER -> CALL + 1

\* every operator of the tree has a right operand that binds tighter than it
\* and a left operand that binds at least as tightly
RECURSIVE Climbs(_)
Climbs(node) ==
    CASE node.kind = "InfixExpression" ->
            /\ Binds(node.left) >= Binds(node) /\ Climbs(node.left)
            /\ Binds(node.right) > Binds(node) /\ Climbs(node.right)
      [] node.kind = "PrefixExpression" ->
            Binds(node.right) >= PREFIX /\ Climbs(node.right)
      [] node.kind = "CallExpression" ->
            /\ Binds(node.function) >= CALL /\ Climbs(node.function)
            /\ \A i \in 1..Len(node.arguments) : Climbs(node.arguments[i])
      [] OTHER -> TRUE

\* C19: an expression with no parentheses is parsed, without an error, into
\* the one tree over its tokens in which every operator has a right operand
\* joined by operators of strictly higher precedence and a left operand
\* joined by operators of the same or higher precedence, in the order
\* == != below < > below + - below * / below prefix below call, and a ';'
\* ends the expression: the tokens after it make the next statement
C19_PrecedenceClimbing ==
    (parsed.family = "expression" /\ parsed.program # NoNode)
        => LET runs == Segments(TokensOf(NewLexer(parser.l.input)), <<>>, <<>>)
               statements == parsed.program.statements
           IN  /\ parser.errors = <<>>
               /\ Len(statements) = Len(runs)
               /\ \A i \in 1..Len(statements) :
                     /\ statements[i].kind = "ExpressionStatement"
                     /\ Yield(statements[i]) = runs[i]
                     /\ Climbs(statements[i].value)

\* -a + b * c + d; -z is (((-a) + (b * c)) + d) and then (-z)
C19_Witness ==
    /\ parsed.family = "expression" /\ parsed.program # NoNode
    /\ Len(parsed.program.statements) = 2
    /\ LET sum == parsed.program.statements[1].value
       IN  /\ sum.kind = "InfixExpression" /\ sum.operator = "+"
           /\ sum.right.kind = "Identifier" /\ sum.right.value = "d"
           /\ sum.left.kind = "InfixExpression" /\ sum.left.operator = "+"
           /\ sum.left.left.kind = "PrefixExpression"
           /\ sum.left.left.right.kind = "Identifier"
           /\ sum.left.right.kind = "InfixExpression"
           /\ sum.left.right.operator = "*"
    /\ parsed.program.statements[2].value.kind = "PrefixExpression"

\* the token types of pkg/token and the STRING of the lexer
TokenTypes ==
    {"ILLEGAL", "EOF", "IDENTIFIER", "INTEGER", "=", "+", "-", "!", "*", "/", "<",
     ">", "==", "!=", ",", ";", "(", ")", "{", "}", "FUNCTION", "LET", "TRUE",
     "FALSE", "IF", "ELSE", "RETURN", "STRING"}

\* the messages "expected next token to be X, got Y"
ExpectedMessages ==
    {"expected next token to be " \o X \o ", got " \o Y : X, Y \in TokenTypes}

\* how many of the messages are of that form
RECURSIVE Expected(_)
Expected(errors) ==
    IF Len(errors) = 0 THEN 0
    ELSE (IF Head(errors) \in ExpectedMessages THEN 1 ELSE 0) + Expected(Tail(errors))

\* how many tokens other than EOF the lexer has yet to return, up to the end
\* of its input
RECURSIVE TokensLeft(_)
TokensLeft(lx) ==
    IF skipWhitespace(lx).position >= Len(lx.input) THEN 0
    ELSE (IF NextToken(lx).tok.type = "EOF" THEN 0 ELSE 1) + TokensLeft(NextToken(lx).l)

\* the tokens ParseProgram has not yet gone past
Remaining(q) ==
    TokensLeft(q.l) + (IF q.peekToken.type = "EOF" THEN 0 ELSE 1)
        + (IF q.currentToken.type = "EOF" THEN 0 ELSE 1)

RECURSIVE SameNode(_, _), SameNodes(_, _)
SameNode(a, b) ==
    /\ a.kind = b.kind
    /\ CASE a.kind \in {"Program", "BlockStatement"} ->
                SameNodes(a.statements, b.statements)
          [] a.kind = "LetStatement" ->
                SameNode(a.name, b.name) /\ SameNode(a.value, b.value)
          [] a.kind \in {"ReturnStatement", "ExpressionStatement"} ->
                SameNode(a.value, b.value)
          [] a.kind \in {"Identifier", "IntegerLiteral", "Boolean"} -> a.value = b.value
          [] a.kind = "PrefixExpression" ->
                a.operator = b.operator /\ SameNode(a.right, b.right)
          [] a.kind = "InfixExpression" ->
                /\ a.operator = b.operator
                /\ SameNode(a.left, b.left) /\ SameNode(a.right, b.right)
          [] a.kind = "IfExpression" ->
                /\ SameNode(a.condition, b.condition)
                /\ SameNode(a.consequence, b.consequence)
                /\ SameNode(a.alternative, b.alternative)
          [] a.kind = "FunctionLiteral" ->
                SameNodes(a.parameters, b.parameters) /\ SameNode(a.body, b.body)
          [] a.kind = "CallExpression" ->
                SameNode(a.function, b.function) /\ SameNodes(a.arguments, b.arguments)
          [] OTHER -> TRUE

SameNodes(as, bs) ==
    /\ Len(as) = Len(bs)
    /\ \A i \in 1..Len(as) : SameNode(as[i], bs[i])

\* C17: when a program was parsed without errors, the text Program.String()
\* gives for it is parsed without errors into a tree equal to the first
C17_StringParsesBack ==
    parsed.reparsed # NoNode
        => /\ parsed.reparsed.errors = <<>>
           /\ SameNode(parsed.reparsed.program, parsed.program)

\* two objects of one type with one value, wherever they are allocated
EqualValue(v, w) ==
    /\ Type(v) = Type(w)
    /\ Type(v) \in {"INTEGER", "BOOLEAN", "STRING"} => v.value = w.value

\* C16: when the value of a program is an Integer, a Boolean, a String or
\* Null, the text Inspect gives for it parses without errors and evaluates
\* to an equal value
C16_InspectEvaluatesToItself ==
    (Done /\ Type(inspected.value) # "nil")
        => /\ Len(parser.errors) = 0
           /\ EqualValue(ctl.val, inspected.value)

\* C21: when the current token has no prefix parse function, parseExpression
\* (at any precedence) appends the one message "no prefix parse function for
\* <kind>", with nothing after the kind, returns nil and leaves the current
\* token, the peek token and the lexer as they were
C21_NoPrefixParseError ==
    parser.currentToken.type \notin prefixParseFns
        => \A precedence \in LOWEST..CALL :
              parseExpression(parser, precedence) =
                  Parsed(NoNode,
                         [parser EXCEPT !.errors =
                             Append(@, "no prefix parse function for "
                                         \o parser.currentToken.type)])

\* the same with the message the parser does append
C21_NoPrefixParseErrorFound ==
    parser.currentToken.type \notin prefixParseFns
        => \A precedence \in LOWEST..CALL :
              parseExpression(parser, precedence) =
                  Parsed(NoNode,
                         [parser EXCEPT !.errors =
                             Append(@, "no prefix parse function for "
                                         \o parser.currentToken.type \o " found")])

\* a = 1; (a let statement without its let): the statement to parse starts
\* with the token =
C21_Witness ==
    /\ parsed.family = "templates" /\ parsed.program = NoNode
    /\ parser.currentToken.type = "="
    /\ parser.errors = <<>>
    /\ Len(parsed.statements) = 1

\* C22: ParseProgram ends on every text, broken ones included.  No turn of
\* the statement loop, the block loop, the infix loop, the parameter loop or
\* the argument loop ends without a token consumed; the tokens consumed and
\* the tokens not yet gone past are together the tokens of the text, which
\* are finitely many since every NextToken moves the lexer forward and
\* returns EOF beyond the end of the input; and what is returned at EOF is
\* a Program, the errors being kept in the Parser
C22_ParseProgramTerminates ==
    /\ [](parser.stalled = 0)
    /\ [](parser.consumed + Remaining(parser) = TokensLeft(NewLexer(parser.l.input)))
    /\ [](/\ NextToken(parser.l).l.readPosition > parser.l.readPosition
          /\ parser.l.position >= Len(parser.l.input)
                => NextToken(parser.l).tok.type = "EOF")
    /\ [][ParseProgramStatement => parser'.consumed > parser.consumed]_vars
    /\ [](parsed.program # NoNode
            => /\ parsed.program.kind = "Program"
               /\ parser.currentToken.type = "EOF"
               /\ Len(parsed.program.statements) <= parser.consumed)

\* fn ( a , b ) { "  with the string open to the end of the text: the block
\* loop has ended at EOF and ParseProgram has returned the function literal,
\* with one error for the string
C22_Witness ==
    /\ parsed.family = "broken" /\ parsed.program # NoNode
    /\ parser.errors = <<"no prefix parse function for STRING found">>
    /\ Len(parsed.program.statements) = 1
    /\ parsed.program.statements[1].value.kind = "FunctionLiteral"
    /\ Len(parsed.program.statements[1].value.body.statements) = 1
    /\ parser.consumed = 8

\* the quotient of a by b # 0 truncated toward zero: the q with a = q * b + r
\* where r is smaller than b in absolute value and is 0 or has the sign of a
Truncated(a, b) ==
    LET abs(x) == IF x < 0 THEN 0 - x ELSE x
    IN  CHOOSE q \in (0 - abs(a))..abs(a) :
            /\ abs(a - q * b) < abs(b)
            /\ a - q * b = 0 \/ (a - q * b < 0) = (a < 0)

\* what operator gives for the integers a and b, b # 0 when it is /
Arithmetic(operator, a, b) ==
    CASE operator = "+" -> Integer(a + b)
      [] operator = "-" -> Integer(a - b)
      [] operator = "*" -> Integer(a * b)
      [] operator = "/" -> Integer(Truncated(a, b))
      [] operator = "<" -> nativeBooleanToBooleanObject(a < b)
      [] operator = ">" -> nativeBooleanToBooleanObject(a > b)
      [] operator = "==" -> nativeBooleanToBooleanObject(a = b)
      [] operator = "!=" -> nativeBooleanToBooleanObject(a # b)

\* C23: on two Integers +, -, * and / with a divisor other than 0 give the
\* Integer of signed arithmetic, / truncating toward zero, and <, >, == and
\* != the shared Boolean of the comparison, wherever two Integers meet an
\* operator; the text  a op b  with a, b in -MaxOperand..MaxOperand evaluates
\* to that value, 7 / 2 to 3, -7 / 2 to -3, 5 + 5 * 2 to 15 and
\* (5 + 10 * 2 + 15 / 3) * 2 + -10 to 50
C23_IntegerArithmetic ==
    /\ [][(/\ Resuming("InfixExpression.Right")
           /\ Top.left # Nil /\ Type(Top.left) = "INTEGER"
           /\ ctl.val # Nil /\ Type(ctl.val) = "INTEGER"
           /\ Top.operator \in Operators
           /\ ~(Top.operator = "/" /\ ctl.val.value = 0))
            => /\ ctl'.mode = "ret"
               /\ SameValue(ctl'.val,
                            Arithmetic(Top.operator, Top.left.value, ctl.val.value))
               /\ Len(stack') = Len(stack) - 1]_vars
    /\ []((Family("arithmetic") /\ ~(testInput.operator = "/" /\ Pick(3) = 0))
            => /\ ctl.mode # "panic"
               /\ Done => SameValue(ctl.val, Arithmetic(testInput.operator,
                                                        SignedPick(1), SignedPick(3))))
    /\ []((Done /\ Family("integerTests"))
            => SameValue(ctl.val, Integer(IntegerTests[Pick(1)].expected)))

\* -7 / 2 has evaluated to -3
C23_Witness ==
    /\ Family("arithmetic") /\ testInput.operator = "/"
    /\ testInput.picks = <<7, 1, 2, 0>> /\ Done
    /\ SameValue(ctl.val, Integer(0 - 3))

\* (5 + 10 * 2 + 15 / 3) * 2 + -10 has evaluated to 50
C23_WitnessPrecedence ==
    /\ Family("integerTests") /\ Pick(1) = 14 /\ Done
    /\ SameValue(ctl.val, Integer(50))

\* store with name bound to the integer n
Binding(store, name, n) ==
    [k \in (DOMAIN store) \cup {name} |-> IF k = name THEN n ELSE store[k]]

\* the lines of Lines the parser has errors for
ErrorLines == {4, 7}

\* what a line of Lines does to the bindings, a function from names to
\* integers, when it is evaluated: let x = x + 1 and let y = x bind nothing
\* where x is not bound, and the return of line 6 ends its program
Effect(store, line) ==
    CASE line = 1 -> Binding(store, "x", 1)
      [] line = 2 -> IF "x" \in DOMAIN store THEN Binding(store, "x", store["x"] + 1)
                     ELSE store
      [] line = 3 -> IF "x" \in DOMAIN store THEN Binding(store, "y", store["x"])
                     ELSE store
      [] line = 6 -> Binding(store, "x", 3)
      [] OTHER -> store

\* the bindings after the lines picks, those with parser errors left out
RECURSIVE EvaluatedInOrder(_, _)
EvaluatedInOrder(store, picks) ==
    IF Len(picks) = 0 THEN store
    ELSE EvaluatedInOrder(IF Head(picks) \in ErrorLines THEN store
                          ELSE Effect(store, Head(picks)),
                          Tail(picks))

\* the lines the REPL has read
LinesRead == SubSeq(testInput.picks, 1, Len(testInput.picks) - Len(repl.lines))

\* C24: a session of the REPL has one environment, the one every line is
\* evaluated in; between two lines and at the end its bindings are those
\* of evaluating, in order, the lines read that parsed without errors; a
\* line with parser errors is not evaluated, changes no binding and prints
\* its errors, and Run goes on to the next line and returns only when no
\* line is left
C24_ReplSharesOneEnvironment ==
    /\ [](Family("repl")
            => /\ Len(envs) = 1
               /\ ctl.mode = "eval" => ctl.env = 1)
    /\ []((Family("repl") /\ repl.at \in {"scan", "returned"})
            => LET expected == EvaluatedInOrder([k \in {} |-> 0], LinesRead)
               IN  /\ DOMAIN envs[1].store = DOMAIN expected
                   /\ \A k \in DOMAIN expected :
                         SameValue(envs[1].store[k], Integer(expected[k]))
                   /\ Len(repl.errors)
                         = Cardinality({i \in 1..Len(LinesRead) :
                                           LinesRead[i] \in ErrorLines}))
    /\ [][Scan => /\ repl'.lines = Tail(repl.lines)
                  /\ Len(envs') = Len(envs) /\ Preserved(envs, envs')
                  /\ IF Head(repl.lines) \in ErrorLines
                     THEN /\ ctl' = ctl /\ stack' = stack /\ out' = out
                          /\ repl'.at = "scan"
                          /\ Len(parser'.errors) > 0
                     ELSE /\ ctl'.mode = "eval" /\ ctl'.env = 1
                          /\ repl'.at = "eval"]_vars
    /\ [](repl.at = "returned" => repl.lines = <<>>)

\* let x = 1; then let y = 2; let x 5; then let y = x;: Run has returned,
\* the second line has printed its error and bound nothing, and y is 1
C24_Witness ==
    /\ Family("repl") /\ testInput.picks = <<1, 4, 3>>
    /\ repl.at = "returned"
    /\ repl.errors = <<"expected next token to be =, got INTEGER">>
    /\ DOMAIN envs[1].store = {"x", "y"}
    /\ SameValue(envs[1].store["x"], Integer(1))
    /\ SameValue(envs[1].store["y"], Integer(1))

\* the key expressions of the two pairs of a hashPairs program
FirstKey == Operands[Pick(1)]

SecondKey == Operands[Pick(2)]

IsStringLiteral(node, value) == node.kind = "StringLiteral" /\ node.value = value

\* C25: the pairs of a hash literal are evaluated in the order written: the
\* first pair first, and after a pair the next one written; so that of
\* {1 + true: 1, nope: puts("value")} the result is the Error of 1 + true
\* with nothing printed, and {"a": 1, "a": puts("value")} is a Hash of one
\* pair whose value is that of the pair written last
C25_HashLiteralInSourceOrder ==
    /\ [][(Calling("HashLiteral") /\ Len(ctl.node.pairs) > 0)
            => stack'[Len(stack')].i = 1]_vars
    /\ [][(Resuming("evalHashLiteral.Value") /\ ~isError(ctl.val) /\ Top.todo # {})
            => stack'[Len(stack')].i = Min(Top.todo)]_vars
    /\ []((Done /\ Family("hashPairs"))
            => /\ (/\ FirstKey.kind = "InfixExpression"
                   /\ SecondKey.kind = "Identifier" /\ SecondKey.value = "nope")
                     => /\ HasMessage(ctl.val, "type mismatch: INTEGER + BOOLEAN")
                        /\ out = <<>>
               /\ (IsStringLiteral(FirstKey, "a") /\ IsStringLiteral(SecondKey, "a"))
                     => /\ Type(ctl.val) = "HASH"
                        /\ Len(ctl.val.pairs) = 1
                        /\ Is(ctl.val.pairs[1].value, NULL))

\* every parameter of the function literal node is made from an identifier
\* token
IdentifierParameters(node) ==
    \A i \in 1..Len(node.parameters) : node.parameters[i].token.type = "IDENTIFIER"

\* what parseFunctionLiteral returns at a current token fn is nil or has
\* identifier parameters
FunctionLiteralHasIdentifierParameters(fn) ==
    fn.node # NoNode => IdentifierParameters(fn.node)

\* C26: the parameters of a function literal the parser returns are made
\* from identifier tokens only, and a text fn(<list>) {} parses without an
\* error only when it does: with another token in a parameter position, as
\* in fn(1, 2) {} and fn(x, ) {}, the parser has recorded an error
C26_ParametersAreIdentifiers ==
    /\ parser.currentToken.type = "FUNCTION"
          => FunctionLiteralHasIdentifierParameters(parseFunctionLiteral(parser))
    /\ (parsed.family = "parameters" /\ parsed.program # NoNode /\ parser.errors = <<>>)
          => /\ Len(parsed.program.statements) = 1
             /\ parsed.program.statements[1].kind = "ExpressionStatement"
             /\ parsed.program.statements[1].value.kind = "FunctionLiteral"
             /\ IdentifierParameters(parsed.program.statements[1].value)

\* the strings puts has printed are texts
Printed(texts) ==
    /\ Len(out) = Len(texts)
    /\ \A i \in 1..Len(texts) : Type(out[i]) = "STRING" /\ out[i].value = texts[i]

\* the operand of the return of a functionReturn program is an integer literal
ReturnsInteger == Pick(1) <= MaxLit + 1

CallsFunction ==
    /\ Family("call") /\ Pick(1) >= FunctionAt(0)
    /\ FirstError(Tail(testInput.picks)) = 0

ParameterCount == Pick(1) - FunctionAt(0)

ArgumentCount == Len(testInput.picks) - 1

\* what the argument i of a call program evaluates to: 1, or the NULL of puts
ArgumentValue(i) == IF Pick(i + 1) = 1 THEN Integer(1) ELSE NULL

\* the arguments puts("arg") of a call program
PutsArguments == {i \in 1..ArgumentCount : Pick(i + 1) = 4}

\* C28: applyFunctions on a Function and arguments of which none is an Error:
\* with fewer arguments than parameters the call panics, no Error is returned
\* for it, and neither the body nor what follows the call is evaluated; with
\* as many or more, the body is evaluated in a new environment enclosing the
\* function's, in which exactly the parameters are bound, parameter i to
\* argument i, all the arguments having been evaluated
C28_ArityIsNotChecked ==
    /\ [][(/\ ResumingList("CallExpression.Arguments")
           /\ Top.function # Nil /\ Type(Top.function) = "FUNCTION_OBJECT"
           /\ ~(Len(ctl.list) = 1 /\ isError(ctl.list[1])))
            => LET fn == Top.function
                   args == ctl.list
               IN  IF Len(args) < Len(fn.parameters)
                   THEN ctl'.mode = "panic"
                   ELSE /\ ctl'.mode = "eval" /\ ctl'.env = Len(envs) + 1
                        /\ Len(envs') = Len(envs) + 1 /\ Preserved(envs, envs')
                        /\ envs'[Len(envs')].outer = fn.env
                        /\ DOMAIN envs'[Len(envs')].store
                              = {fn.parameters[i].value : i \in 1..Len(fn.parameters)}
                        /\ \A i \in 1..Len(fn.parameters) :
                              LET bound == envs'[Len(envs')].store[fn.parameters[i].value]
                              IN  IF args[i] = Nil THEN bound = Nil
                                  ELSE bound # Nil /\ SameValue(bound, args[i])]_vars
    /\ []((CallsFunction /\ ArgumentCount < ParameterCount)
            => /\ ~Done
               /\ ctl.mode = "ret" => ~isError(ctl.val)
               /\ Len(envs) = 1
               /\ \A i \in 1..Len(out) : out[i].value = "arg")
    /\ []((CallsFunction /\ ArgumentCount >= ParameterCount)
            => /\ ctl.mode # "panic"
               /\ Done
                    => /\ Len(out) = Cardinality(PutsArguments) + 2
                       /\ out[Len(out) - 1].value = "body"
                       /\ out[Len(out)].value = "next"
                       /\ Len(envs) = 2
                       /\ DOMAIN envs[2].store
                             = {Params[i] : i \in 1..ParameterCount}
                       /\ \A i \in 1..ParameterCount :
                             SameValue(envs[2].store[Params[i]], ArgumentValue(i)))

\* fn(p, q) { puts("body"); 7 }(puts("arg")) has panicked after printing arg
C28_Witness ==
    /\ Family("call") /\ testInput.picks = <<FunctionAt(2), 4>>
    /\ ctl.mode = "panic"
    /\ Printed(<<"arg">>)

\* fn(p) { puts("body"); 7 }(1, puts("arg"), puts("arg")) has bound p to 1
\* and printed arg twice, then body and next
C28_WitnessSurplus ==
    /\ Family("call") /\ testInput.picks = <<FunctionAt(1), 1, 4, 4>> /\ Done
    /\ Printed(<<"arg", "arg", "body", "next">>)
    /\ DOMAIN envs[2].store = {"p"}
    /\ SameValue(envs[2].store["p"], Integer(1))

\* the names bound in the environment e
Names(e) == DOMAIN envs[e].store

\* C29: evalIfExpression and the evaluation of a block make no environment
\* and evaluate in the environment they are given; the only step that
\* makes an environment is the call of a Function.  In an ifLet program
\* the lets of the taken block bind x and y, or z, in the environment of
\* the program, where they are after the if, while the lets of the body of
\* f bind x and w in the environment of the call and leave the x of the
\* program as it is
C29_IfBlocksShareTheEnvironment ==
    /\ [][Resuming("evalIfExpression")
            => /\ Len(envs') = Len(envs) /\ Preserved(envs, envs')
               /\ ctl'.mode = "eval" => ctl'.env = Top.env]_vars
    /\ [][Calling("BlockStatement")
            => /\ Len(envs') = Len(envs) /\ Preserved(envs, envs')
               /\ ctl'.mode = "eval" => ctl'.env = ctl.env]_vars
    /\ [][Len(envs') # Len(envs)
            => /\ ResumingList("CallExpression.Arguments")
               /\ Type(Top.function) = "FUNCTION_OBJECT"
               /\ Len(envs') = Len(envs) + 1
               /\ envs'[Len(envs')].outer = Top.function.env]_vars
    /\ [](Family("ifLet")
            => /\ ctl.mode # "panic"
               /\ Done
                    => /\ Len(envs) = 2
                       /\ envs[2].outer = 1
                       /\ Names(2) = {"x", "w"}
                       /\ SameValue(envs[2].store["x"], Integer(9))
                       /\ SameValue(envs[1].store["r"], Integer(9))
                       /\ IF Pick(2) = 1
                          THEN /\ Names(1) = {"x", "y", "f", "r"}
                               /\ SameValue(envs[1].store["x"], Integer(Pick(1)))
                               /\ SameValue(envs[1].store["y"], Integer(2))
                               /\ Type(ctl.val) = "ARRAY"
                               /\ SameValue(ctl.val.elements[1], Integer(Pick(1)))
                               /\ SameValue(ctl.val.elements[2], Integer(2))
                               /\ SameValue(ctl.val.elements[3], Integer(9))
                          ELSE /\ Names(1) = {"x", "z", "f", "r"}
                               /\ SameValue(envs[1].store["x"], Integer(1))
                               /\ SameValue(envs[1].store["z"], Integer(3))
                               /\ HasMessage(ctl.val, "identifier not found: y"))

\* let x = 1; if (true) { let x = 0; let y = 2; } ..: after the if and the
\* call of f, [x, y, r] is [0, 2, 9]
C29_Witness ==
    /\ Family("ifLet") /\ testInput.picks = <<0, 1>> /\ Done
    /\ Names(1) = {"x", "y", "f", "r"}
    /\ Type(ctl.val) = "ARRAY"
    /\ SameValue(ctl.val.elements[1], Integer(0))
    /\ SameValue(ctl.val.elements[2], Integer(2))

\* C30: where / meets two Integers of which the right one is 0, whatever
\* the left one, the evaluation ends in a panic: nothing is returned to the
\* frame that waits for the quotient, and no step follows.  Of
\* puts("before"); let q = n / 0; puts("after"); q  and of the text n / 0,
\* Eval does not return, no Error is ever returned, q is not bound and
\* after is not printed
C30_DivisionByZeroPanics ==
    /\ [][(/\ Resuming("InfixExpression.Right")
           /\ Top.left # Nil /\ Type(Top.left) = "INTEGER"
           /\ ctl.val # Nil /\ Type(ctl.val) = "INTEGER"
           /\ Top.operator = "/" /\ ctl.val.value = 0)
            => ctl'.mode = "panic"]_vars
    /\ [][ctl.mode = "panic" => ctl'.mode = "panic"]_vars
    /\ []((Family("divide") /\ Pick(3) = 0)
            => /\ ~Done
               /\ ctl.mode = "ret" => ~isError(ctl.val)
               /\ Names(1) \subseteq {"x"}
               /\ Len(out) <= 1
               /\ ctl.mode = "panic" => Printed(<<"before">>))
    /\ []((Family("arithmetic") /\ testInput.operator = "/" /\ Pick(3) = 0)
            => /\ ~Done
               /\ ctl.mode = "ret" => ~isError(ctl.val))
    /\ []((Family("divide") /\ Pick(3) # 0)
            => /\ ctl.mode # "panic"
               /\ Done => /\ Printed(<<"before", "after">>)
                          /\ SameValue(ctl.val,
                                       Integer(Truncated(SignedPick(1), SignedPick(3)))))

\* puts("before"); let q = -2 / 0; puts("after"); q has ended in a panic
\* with before printed and q not bound
C30_Witness ==
    /\ Family("divide") /\ testInput.picks = <<2, 1, 0, 0>>
    /\ ctl.mode = "panic"
    /\ Printed(<<"before">>)
    /\ "q" \notin Names(1)

\* the text 7 / 0, lexed and parsed, has ended in a panic
C30_WitnessParsed ==
    /\ Family("arithmetic") /\ testInput.operator = "/"
    /\ testInput.picks = <<7, 0, 0, 0>>
    /\ ctl.mode = "panic"

====
